---- MODULE Spec2Model ----
(***************************************************************************)
(* Train braking-supervision simulator: BrakingModel, TrackNetwork signal  *)
(* aspects and the TrainDynamics tick, modelled from the TypeScript.       *)
(*                                                                         *)
(* Numbers.  The program computes in IEEE doubles; the model computes in   *)
(* fixed point: distances in cm, speeds in cm/s, accelerations in cm/s^2,  *)
(* times in ms, gradients in per mille, rotatingMassFactor in hundredths.  *)
(* A quotient is rounded down.  NaN (the 0/0 of an interpolation between   *)
(* two curve points at the same distance) and Infinity are explicit        *)
(* values, compared the way the program's >= compares them.                *)
(***************************************************************************)
EXTENDS Integers, Sequences, FiniteSets, TLC

Max(a, b) == IF a >= b THEN a ELSE b

Min(a, b) == IF a <= b THEN a ELSE b

Abs(a) == IF a >= 0 THEN a ELSE -a

(* The element of a one-element set: Only({F(x) : x \in {e}}) is F(e), with *)
(* e evaluated once.                                                       *)
Only(S) == CHOOSE x \in S : TRUE

(* utils/math.ts clamp *)
clamp(v, lo, hi) == Max(lo, Min(hi, v))

(***************************************************************************)
(* Math.sqrt, rounded down to the speed unit: Newton's iteration from a    *)
(* start value x >= 1, each iterate computed once.                         *)
(***************************************************************************)
SqrtCap == 46339

RECURSIVE SqrtFrom(_, _)
SqrtFrom(n, x) ==
  IF x * x <= n /\ (x + 1) * (x + 1) > n THEN x
  ELSE Only({SqrtFrom(n, next) :
               next \in {IF x * x <= n
                           THEN Max(Min(SqrtCap, (x + n \div x) \div 2), x + 1)
                           ELSE Min(Min(SqrtCap, (x + n \div x) \div 2), x - 1)}})

Sqrt(n) == IF n <= 0 THEN 0 ELSE SqrtFrom(n, Min(n, SqrtCap))

(***************************************************************************)
(* TrainParameters and the shipped presets.                                *)
(***************************************************************************)
TrainParameters(ms, ma, sb, eb, rmf, rts, rte) ==
  [maxSpeed |-> ms, maxAcceleration |-> ma, serviceBrakeDecel |-> sb,
   emergencyBrakeDecel |-> eb, rotatingMassFactor |-> rmf,
   reactionTimeService |-> rts, reactionTimeEmergency |-> rte]

DEFAULT_TRAIN_PARAMS == TrainParameters(2220, 100, 100, 130, 108, 2000, 1000)

TRAIN_PRESETS ==
  { TrainParameters(2220, 100, 100, 130, 108, 2000, 1000),
    TrainParameters(8330,  50,  70, 115, 104, 2500, 1000),
    TrainParameters(4440,  80,  80, 120, 106, 3000, 1500),
    TrainParameters(2780,  20,  30,  60, 110, 5000, 2500) }

(***************************************************************************)
(* BrakingModel                                                            *)
(***************************************************************************)
G == 981

MinDecel == 1

RunawaySpeed == 12000

StepsPerCurve == 500

MinStep == 100

IndicationMargin == 4000

NaN == -1

Infinity == 1000000000

(* An effective deceleration without the floor. *)
effectiveDecelerationUnfloored(p, baseDecel, gradientPermille) ==
  ((baseDecel * 1000 + G * gradientPermille) * 100) \div (1000 * p.rotatingMassFactor)

(* BrakingModel.effectiveDeceleration *)
effectiveDeceleration(p, baseDecel, gradientPermille) ==
  LET aEff == ((baseDecel * 1000 + G * gradientPermille) * 100)
                \div (1000 * p.rotatingMassFactor)
  IN  Max(MinDecel, aEff)

(* BrakingModel.getGradientAt: the slope of the last profile point whose   *)
(* offset is <= the query, scanning until the first larger offset.         *)
RECURSIVE ScanGradient(_, _, _, _)
ScanGradient(profile, offset, i, slope) ==
  IF i > Len(profile) THEN slope
  ELSE IF profile[i].offset <= offset
         THEN ScanGradient(profile, offset, i + 1, profile[i].slope)
         ELSE slope

getGradientAtProfile(profile, offset) ==
  IF Len(profile) = 0 THEN 0
  ELSE ScanGradient(profile, offset, 1, profile[1].slope)

(* One pass through the body of the while loop of computeBrakingCurve.    *)
(* st.d is the remaining distance, st.vSq the radicand whose root is v     *)
(* (the double v squares back to it), st.curve the points so far, nearest  *)
(* first, and st.done is set once the loop has been left.                  *)
IntegrateStep(p, deceleration, gradientProfile, stepSize, st) ==
  IF st.done \/ st.d <= 0 THEN [st EXCEPT !.done = TRUE]
  ELSE
    LET grad == getGradientAtProfile(gradientProfile, st.d)
        aEff == effectiveDeceleration(p, deceleration, grad)
        step == Min(stepSize, st.d)
        stepped(vSquared, v, d) ==
          [d |-> d, vSq |-> vSquared, v |-> v,
           curve |-> <<[distance |-> Max(0, d), speed |-> v]>> \o st.curve,
           done |-> vSquared > RunawaySpeed * RunawaySpeed]
        rooted(vSquared) ==
          IF vSquared < 0 THEN [st EXCEPT !.done = TRUE]
          ELSE Only({stepped(vSquared, v, d) :
                       v \in {SqrtFrom(vSquared, Max(1, st.v))}, d \in {st.d - step}})
    IN  Only({rooted(vSquared) : vSquared \in {st.vSq + 2 * aEff * step}})

(* n passes of the loop, halving n so that the evaluation stays shallow;  *)
(* the state between the two halves is computed once.                      *)
RECURSIVE Integrate(_, _, _, _, _, _)
Integrate(p, deceleration, gradientProfile, stepSize, st, n) ==
  IF st.done THEN st
  ELSE IF n <= 1 THEN IntegrateStep(p, deceleration, gradientProfile, stepSize, st)
  ELSE
    LET second(mid, rest) == Integrate(p, deceleration, gradientProfile, stepSize, mid, rest)
        first(half) ==
          Only({second(mid, rest) :
                  mid \in {Integrate(p, deceleration, gradientProfile, stepSize, st, half)},
                  rest \in {n - half}})
    IN  Only({first(half) : half \in {n \div 2}})

(* The reaction-time shift with the clamp at 0 left out: a variant of      *)
(* ShiftByReaction under which curve points get negative distances.        *)
ShiftByReactionUnclamped(curve, reactionTime) ==
  IF reactionTime > 0 /\ Len(curve) > 0
    THEN LET topSpeed == curve[1].speed
             reactionDist == (topSpeed * reactionTime) \div 1000
             shifted == [i \in 1..Len(curve) |->
                           [distance |-> curve[i].distance - reactionDist,
                            speed |-> curve[i].speed]]
         IN  IF shifted[1].distance > 0
               THEN <<[distance |-> 0, speed |-> topSpeed]>> \o shifted
               ELSE shifted
    ELSE curve

(* The reaction-time shift of computeBrakingCurve. *)
ShiftByReaction(curve, reactionTime) ==
  IF reactionTime > 0 /\ Len(curve) > 0
    THEN LET topSpeed == curve[1].speed
             reactionDist == (topSpeed * reactionTime) \div 1000
             shifted == [i \in 1..Len(curve) |->
                           [distance |-> Max(0, curve[i].distance - reactionDist),
                            speed |-> curve[i].speed]]
         IN  IF shifted[1].distance > 0
               THEN <<[distance |-> 0, speed |-> topSpeed]>> \o shifted
               ELSE shifted
    ELSE curve

(* BrakingModel.computeBrakingCurve.  The loop runs until d reaches 0: at   *)
(* most targetDistance / stepSize + 1 passes.                              *)
computeBrakingCurve(p, targetSpeed, targetDistance, deceleration, reactionTime, gradientProfile) ==
  LET start == [d |-> targetDistance, vSq |-> targetSpeed * targetSpeed, v |-> targetSpeed,
                curve |-> <<[distance |-> targetDistance, speed |-> targetSpeed]>>,
                done |-> FALSE]
      loop(stepSize) ==
        Only({ShiftByReaction(end.curve, reactionTime) :
                end \in {Integrate(p, deceleration, gradientProfile, stepSize, start,
                                   targetDistance \div stepSize + 2)}})
  IN  Only({loop(stepSize) : stepSize \in {Max(MinStep, targetDistance \div StepsPerCurve)}})

(* A variant of computeCurves with the reaction times of the emergency     *)
(* brake curve and of the warning curve exchanged.                         *)
computeCurvesExchanged(p, target, gradientProfile) ==
  [emergencyBrake |-> computeBrakingCurve(p, target.targetSpeed, target.targetDistance,
                        p.emergencyBrakeDecel, p.reactionTimeEmergency, gradientProfile),
   serviceBrake   |-> computeBrakingCurve(p, target.targetSpeed, target.targetDistance,
                        p.serviceBrakeDecel, p.reactionTimeService \div 2, gradientProfile),
   warning        |-> computeBrakingCurve(p, target.targetSpeed, target.targetDistance,
                        p.emergencyBrakeDecel, p.reactionTimeEmergency \div 2, gradientProfile),
   permitted      |-> computeBrakingCurve(p, target.targetSpeed, target.targetDistance,
                        p.serviceBrakeDecel, p.reactionTimeService, gradientProfile),
   indication     |-> computeBrakingCurve(p, target.targetSpeed, target.targetDistance,
                        p.serviceBrakeDecel, p.reactionTimeService + IndicationMargin,
                        gradientProfile)]

(* BrakingModel.computeCurves *)
computeCurves(p, target, gradientProfile) ==
  [emergencyBrake |-> computeBrakingCurve(p, target.targetSpeed, target.targetDistance,
                        p.emergencyBrakeDecel, p.reactionTimeEmergency \div 2, gradientProfile),
   serviceBrake   |-> computeBrakingCurve(p, target.targetSpeed, target.targetDistance,
                        p.serviceBrakeDecel, p.reactionTimeService \div 2, gradientProfile),
   warning        |-> computeBrakingCurve(p, target.targetSpeed, target.targetDistance,
                        p.emergencyBrakeDecel, p.reactionTimeEmergency, gradientProfile),
   permitted      |-> computeBrakingCurve(p, target.targetSpeed, target.targetDistance,
                        p.serviceBrakeDecel, p.reactionTimeService, gradientProfile),
   indication     |-> computeBrakingCurve(p, target.targetSpeed, target.targetDistance,
                        p.serviceBrakeDecel, p.reactionTimeService + IndicationMargin,
                        gradientProfile)]

(* speedAtDist of getSupervisionStatus: the first bracketing pair          *)
(* interpolates; a pair at one distance divides 0 by 0.                    *)
Bracket(curve, distanceToTarget) ==
  LET hits == {i \in 1..(Len(curve) - 1) :
                 /\ distanceToTarget >= curve[i].distance
                 /\ distanceToTarget <= curve[i + 1].distance}
  IN  IF hits = {} THEN 0 ELSE CHOOSE i \in hits : \A j \in hits : i <= j

speedAtDist(curve, distanceToTarget) ==
  IF Len(curve) = 0 THEN Infinity
  ELSE
    LET i == Bracket(curve, distanceToTarget)
    IN  IF i > 0
          THEN IF curve[i + 1].distance = curve[i].distance THEN NaN
               ELSE curve[i].speed
                      + ((distanceToTarget - curve[i].distance)
                           * (curve[i + 1].speed - curve[i].speed))
                        \div (curve[i + 1].distance - curve[i].distance)
          ELSE IF distanceToTarget <= curve[1].distance THEN curve[1].speed
          ELSE curve[Len(curve)].speed

(* currentSpeed >= allowed, as the doubles compare: false against NaN. *)
AtOrAbove(currentSpeed, allowed) == allowed # NaN /\ currentSpeed >= allowed

(* A classification whose first test is turned round: intervention at or  *)
(* below the speed the emergency brake curve allows.                       *)
getSupervisionStatusInverted(currentSpeed, distanceToTarget, curves) ==
  LET ebdSpeed == speedAtDist(curves.emergencyBrake, distanceToTarget)
      warningSpeed == speedAtDist(curves.warning, distanceToTarget)
      permittedSpeed == speedAtDist(curves.permitted, distanceToTarget)
      indicationSpeed == speedAtDist(curves.indication, distanceToTarget)
  IN  IF ebdSpeed # NaN /\ currentSpeed <= ebdSpeed THEN "intervention"
      ELSE IF AtOrAbove(currentSpeed, warningSpeed) THEN "warning"
      ELSE IF AtOrAbove(currentSpeed, permittedSpeed) THEN "permitted"
      ELSE IF AtOrAbove(currentSpeed, indicationSpeed) THEN "indication"
      ELSE "normal"

(* BrakingModel.getSupervisionStatus *)
getSupervisionStatus(currentSpeed, distanceToTarget, curves) ==
  LET ebdSpeed == speedAtDist(curves.emergencyBrake, distanceToTarget)
      warningSpeed == speedAtDist(curves.warning, distanceToTarget)
      permittedSpeed == speedAtDist(curves.permitted, distanceToTarget)
      indicationSpeed == speedAtDist(curves.indication, distanceToTarget)
  IN  IF AtOrAbove(currentSpeed, ebdSpeed) THEN "intervention"
      ELSE IF AtOrAbove(currentSpeed, warningSpeed) THEN "warning"
      ELSE IF AtOrAbove(currentSpeed, permittedSpeed) THEN "permitted"
      ELSE IF AtOrAbove(currentSpeed, indicationSpeed) THEN "indication"
      ELSE "normal"


(***************************************************************************)
(* TrackNetwork.  Node, edge and station ids are numbers (0 is the id no   *)
(* node, edge or station has: null, '' or a missing map entry); a signal   *)
(* is named by its edge and its place in that edge's signal list.          *)
(***************************************************************************)
Undefined == [undefined |-> TRUE]

IsDefined(x) == "undefined" \notin DOMAIN x

NoId == 0

DefaultSpeedLimit == 3330

TopoNode(id, type, x, y, connectedEdges) ==
  [id |-> id, type |-> type, position |-> [x |-> x, y |-> y],
   connectedEdges |-> connectedEdges]

TopoEdge(id, startNodeId, endNodeId, length, gradientProfile, signals, speedLimits) ==
  [id |-> id, startNodeId |-> startNodeId, endNodeId |-> endNodeId, length |-> length,
   gradientProfile |-> gradientProfile, signals |-> signals, speedLimits |-> speedLimits]

GradientPoint(offset, slope) == [offset |-> offset, slope |-> slope]

PlacedSignal(offset, direction) == [offset |-> offset, direction |-> direction]

SpeedLimit(startOffset, endOffset, speedMs) ==
  [startOffset |-> startOffset, endOffset |-> endOffset, speedMs |-> speedMs]

RouteSegment(edgeId, direction, startOffset, endOffset) ==
  [edgeId |-> edgeId, direction |-> direction,
   startOffset |-> startOffset, endOffset |-> endOffset]

StationInfo(id, x, y) == [id |-> id, name |-> id, position |-> [x |-> x, y |-> y]]

(* The constructor: the node and edge maps keep the order of the lists. *)
TrackNetwork(nodes, edges, stations) ==
  [nodes |-> nodes, edges |-> edges, stations |-> stations]

getEdge(net, id) ==
  LET hits == {i \in DOMAIN net.edges : net.edges[i].id = id}
  IN  IF hits = {} THEN Undefined ELSE net.edges[CHOOSE i \in hits : TRUE]

getNode(net, id) ==
  LET hits == {i \in DOMAIN net.nodes : net.nodes[i].id = id}
  IN  IF hits = {} THEN Undefined ELSE net.nodes[CHOOSE i \in hits : TRUE]

getAdjacentEdges(net, nodeId) ==
  LET node == getNode(net, nodeId)
  IN  IF ~IsDefined(node) THEN <<>>
      ELSE SelectSeq([k \in DOMAIN node.connectedEdges |->
                         getEdge(net, node.connectedEdges[k])], IsDefined)

(* The square of the distance buildStationNodeMap compares. *)
DistSq(a, b) == (a.x - b.x) * (a.x - b.x) + (a.y - b.y) * (a.y - b.y)

(* The first node at the greatest distance. *)
FarthestNodeId(net, pos) ==
  LET n == Len(net.nodes)
      d(i) == DistSq(net.nodes[i].position, pos)
  IN  IF n = 0 THEN NoId
      ELSE net.nodes[CHOOSE i \in 1..n :
                       \A j \in 1..n : d(i) > d(j) \/ (d(i) = d(j) /\ i <= j)].id

(* buildStationNodeMap: the first node at the least distance. *)
NearestNodeId(net, pos) ==
  LET n == Len(net.nodes)
      d(i) == DistSq(net.nodes[i].position, pos)
  IN  IF n = 0 THEN NoId
      ELSE net.nodes[CHOOSE i \in 1..n :
                       \A j \in 1..n : d(i) < d(j) \/ (d(i) = d(j) /\ i <= j)].id

buildStationNodeMap(net) ==
  [s \in {net.stations[i].id : i \in DOMAIN net.stations} |->
     NearestNodeId(net, net.stations[CHOOSE i \in DOMAIN net.stations :
                                       net.stations[i].id = s].position)]

(* TrackNetwork.getGradientAt *)
getGradientAt(net, edgeId, offset) ==
  LET edge == getEdge(net, edgeId)
  IN  IF ~IsDefined(edge) THEN 0
      ELSE IF Len(edge.gradientProfile) = 0 THEN 0
      ELSE ScanGradient(edge.gradientProfile, offset, 1, edge.gradientProfile[1].slope)

(* TrackNetwork.getSpeedLimitAt: the first range that holds the offset. *)
getSpeedLimitAt(net, edgeId, offset) ==
  LET edge == getEdge(net, edgeId)
      hits == {i \in DOMAIN edge.speedLimits :
                 /\ offset >= edge.speedLimits[i].startOffset
                 /\ offset <= edge.speedLimits[i].endOffset}
  IN  IF ~IsDefined(edge) THEN DefaultSpeedLimit
      ELSE IF hits = {} THEN DefaultSpeedLimit
      ELSE edge.speedLimits[CHOOSE i \in hits : \A j \in hits : i <= j].speedMs

(* A search that takes the newest entry first. *)
RECURSIVE SearchPathDepthFirst(_, _, _, _)
SearchPathDepthFirst(net, endNodeId, queue, visited) ==
  IF Len(queue) = 0 THEN <<>>
  ELSE
    LET current == Head(queue)
        seen == visited \cup {current.nodeId}
        isForward(edge) == edge.startNodeId = current.nodeId
        nextNodeId(edge) == IF isForward(edge) THEN edge.endNodeId ELSE edge.startNodeId
        fresh(edge) == nextNodeId(edge) \notin seen
        open == SelectSeq(getAdjacentEdges(net, current.nodeId), fresh)
        pushed == [k \in DOMAIN open |->
                     [nodeId |-> nextNodeId(open[k]),
                      path |-> Append(current.path,
                                 RouteSegment(open[k].id,
                                   IF isForward(open[k]) THEN "forward" ELSE "reverse",
                                   IF isForward(open[k]) THEN 0 ELSE open[k].length,
                                   IF isForward(open[k]) THEN open[k].length ELSE 0))]]
    IN  IF current.nodeId = endNodeId /\ Len(current.path) > 0 THEN current.path
        ELSE IF current.nodeId \in visited
               THEN SearchPathDepthFirst(net, endNodeId, Tail(queue), visited)
               ELSE SearchPathDepthFirst(net, endNodeId, pushed \o Tail(queue), seen)

(* TrackNetwork.findPath: breadth-first search; queue holds the entries    *)
(* not yet taken, visited the nodes already expanded.                      *)
RECURSIVE SearchPath(_, _, _, _)
SearchPath(net, endNodeId, queue, visited) ==
  IF Len(queue) = 0 THEN <<>>
  ELSE
    LET current == Head(queue)
        adjacentEdges == getAdjacentEdges(net, current.nodeId)
        seen == visited \cup {current.nodeId}
        isForward(edge) == edge.startNodeId = current.nodeId
        nextNodeId(edge) == IF isForward(edge) THEN edge.endNodeId ELSE edge.startNodeId
        fresh(edge) == nextNodeId(edge) \notin seen
        open == SelectSeq(adjacentEdges, fresh)
        pushed == [k \in DOMAIN open |->
                     [nodeId |-> nextNodeId(open[k]),
                      path |-> Append(current.path,
                                 RouteSegment(open[k].id,
                                   IF isForward(open[k]) THEN "forward" ELSE "reverse",
                                   IF isForward(open[k]) THEN 0 ELSE open[k].length,
                                   IF isForward(open[k]) THEN open[k].length ELSE 0))]]
    IN  IF current.nodeId = endNodeId /\ Len(current.path) > 0 THEN current.path
        ELSE IF current.nodeId \in visited
               THEN SearchPath(net, endNodeId, Tail(queue), visited)
               ELSE SearchPath(net, endNodeId, Tail(queue) \o pushed, seen)

(* A search that follows an edge only from its start node to its end node. *)
findPathOneWay(net, startNodeId, endNodeId) ==
  LET oneWay == [net EXCEPT !.nodes = [i \in DOMAIN net.nodes |->
                   [net.nodes[i] EXCEPT !.connectedEdges =
                      LET leaves(id) == getEdge(net, id).startNodeId = net.nodes[i].id
                      IN  SelectSeq(@, leaves)]]]
  IN  SearchPath(oneWay, endNodeId, <<[nodeId |-> startNodeId, path |-> <<>>]>>, {})

findPath(net, startNodeId, endNodeId) ==
  SearchPath(net, endNodeId, <<[nodeId |-> startNodeId, path |-> <<>>]>>, {})

(* TrackNetwork.buildSequentialRoute: depth-first from the first edge. *)
RECURSIVE FollowEdges(_, _, _, _)
FollowEdges(net, stack, visited, route) ==
  IF Len(stack) = 0 THEN route
  ELSE
    LET edge == stack[Len(stack)]
        rest == SubSeq(stack, 1, Len(stack) - 1)
        seen == visited \cup {edge.id}
        unvisited(next) == next.id \notin seen
        nextEdges == SelectSeq(getAdjacentEdges(net, edge.endNodeId), unvisited)
    IN  IF edge.id \in visited THEN FollowEdges(net, rest, visited, route)
        ELSE FollowEdges(net, rest \o nextEdges, seen,
                         Append(route, RouteSegment(edge.id, "forward", 0, edge.length)))

buildSequentialRoute(net) ==
  IF Len(net.edges) = 0 THEN <<>> ELSE FollowEdges(net, <<net.edges[1]>>, {}, <<>>)

(* A default route that never looks for buffer nodes. *)
generateDefaultRouteSequential(net) ==
  IF Len(net.edges) = 0 THEN <<>> ELSE buildSequentialRoute(net)

(* TrackNetwork.generateDefaultRoute *)
generateDefaultRoute(net) ==
  LET isBuffer(n) == n.type = "buffer"
      bufferNodes == SelectSeq(net.nodes, isBuffer)
      route == findPath(net, bufferNodes[1].id, bufferNodes[Len(bufferNodes)].id)
  IN  IF Len(net.edges) = 0 THEN <<>>
      ELSE IF Len(bufferNodes) >= 2 /\ Len(route) > 0 THEN route
      ELSE buildSequentialRoute(net)

(* stationNodeMap.get: the node of a station, NoId when the map has none. *)
stationNodeMapGet(net, stationId) ==
  LET map == buildStationNodeMap(net)
  IN  IF stationId \in DOMAIN map THEN map[stationId] ELSE NoId

(* A generator that gives up with no route when findPath finds none. *)
generateRouteWithoutFallback(net, fromStationId, toStationId) ==
  LET fromNodeId == stationNodeMapGet(net, fromStationId)
      toNodeId == stationNodeMapGet(net, toStationId)
      route == findPath(net, fromNodeId, toNodeId)
  IN  IF fromNodeId = NoId \/ toNodeId = NoId THEN generateDefaultRoute(net)
      ELSE IF Len(route) > 0 THEN route
      ELSE findPath(net, toNodeId, fromNodeId)

(* A generator that tries the path from the destination first. *)
generateRouteReverseFirst(net, fromStationId, toStationId) ==
  LET fromNodeId == stationNodeMapGet(net, fromStationId)
      toNodeId == stationNodeMapGet(net, toStationId)
      route == findPath(net, fromNodeId, toNodeId)
      reverseRoute == findPath(net, toNodeId, fromNodeId)
  IN  IF fromNodeId = NoId \/ toNodeId = NoId THEN generateDefaultRoute(net)
      ELSE IF Len(reverseRoute) > 0 THEN reverseRoute
      ELSE IF Len(route) > 0 THEN route
      ELSE generateDefaultRoute(net)

(* TrackNetwork.generateRouteBetweenStations *)
generateRouteBetweenStations(net, fromStationId, toStationId) ==
  LET fromNodeId == stationNodeMapGet(net, fromStationId)
      toNodeId == stationNodeMapGet(net, toStationId)
      route == findPath(net, fromNodeId, toNodeId)
      reverseRoute == findPath(net, toNodeId, fromNodeId)
  IN  IF fromNodeId = NoId \/ toNodeId = NoId THEN generateDefaultRoute(net)
      ELSE IF Len(route) > 0 THEN route
      ELSE IF Len(reverseRoute) > 0 THEN reverseRoute
      ELSE generateDefaultRoute(net)

(* Array.indexOf, counting from 0; -1 when absent. *)
indexOf(seq, x) ==
  LET hits == {i \in DOMAIN seq : seq[i] = x}
  IN  IF hits = {} THEN -1 ELSE (CHOOSE i \in hits : \A j \in hits : i <= j) - 1

(* The nodeToStation map of getStationStopsAlongRoute: of the stations     *)
(* mapped to one node, the last in the station list is the one kept.       *)
StationAtNode(net, nodeId) ==
  LET map == buildStationNodeMap(net)
      hits == {i \in DOMAIN net.stations : map[net.stations[i].id] = nodeId /\ nodeId # NoId}
  IN  IF hits = {} THEN Undefined
      ELSE net.stations[CHOOSE i \in hits : \A j \in hits : i >= j]

SegLength(seg) == Abs(seg.endOffset - seg.startOffset)

RECURSIVE SumLengths(_, _)
SumLengths(route, n) ==
  IF n <= 0 THEN 0 ELSE SumLengths(route, n - 1) + SegLength(route[n])

(* A variant that gives each stop the distance to the start of its        *)
(* segment.                                                                *)
getStationStopsBeforeSegment(net, route) ==
  LET stationAtEnd(i) ==
        LET seg == route[i]
            edge == getEdge(net, seg.edgeId)
        IN  IF ~IsDefined(edge) THEN Undefined
            ELSE StationAtNode(net, IF seg.direction = "forward"
                                      THEN edge.endNodeId ELSE edge.startNodeId)
      hasStop(i) == IsDefined(stationAtEnd(i))
      ends == SelectSeq([i \in DOMAIN route |-> i], hasStop)
  IN  [k \in DOMAIN ends |->
         [stationId |-> stationAtEnd(ends[k]).id,
          name |-> stationAtEnd(ends[k]).name,
          distanceAlongRoute |-> SumLengths(route, ends[k] - 1)]]

(* TrackNetwork.getStationStopsAlongRoute *)
getStationStopsAlongRoute(net, route) ==
  LET stationAtEnd(i) ==
        LET seg == route[i]
            edge == getEdge(net, seg.edgeId)
        IN  IF ~IsDefined(edge) THEN Undefined
            ELSE StationAtNode(net, IF seg.direction = "forward"
                                      THEN edge.endNodeId ELSE edge.startNodeId)
      hasStop(i) == IsDefined(stationAtEnd(i))
      ends == SelectSeq([i \in DOMAIN route |-> i], hasStop)
  IN  [k \in DOMAIN ends |->
         [stationId |-> stationAtEnd(ends[k]).id,
          name |-> stationAtEnd(ends[k]).name,
          distanceAlongRoute |-> SumLengths(route, ends[k])]]

(* The signals of the network, and the aspect every signal is built with. *)
SignalKeys(net) ==
  UNION {{<<net.edges[i].id, k>> : k \in DOMAIN net.edges[i].signals} : i \in DOMAIN net.edges}

AllClear(net) == [s \in SignalKeys(net) |-> "clear"]

(* One loop of updateSignalAspects over the signals of an edge: those      *)
(* facing direction take the aspect given, the others keep theirs.         *)
setFacing(aspects, edge, direction, value) ==
  IF ~IsDefined(edge) THEN aspects
  ELSE [s \in DOMAIN aspects |->
          IF s[1] = edge.id /\ edge.signals[s[2]].direction = direction
            THEN value ELSE aspects[s]]

(* A variant of updateSignalAspects whose first loop is left out: the       *)
(* signals keep the aspects they had.                                      *)
updateSignalAspectsWithoutReset(net, aspects, occupiedEdgeId, routeEdgeIds, direction) ==
  LET occupiedIndex == indexOf(routeEdgeIds, occupiedEdgeId)
      cautioned(stopped, prevEdge) == setFacing(stopped, prevEdge, direction, "caution")
      marked(reset, occEdge, index) ==
        IF occupiedEdgeId = NoId THEN reset
        ELSE IF index = -1 THEN reset
        ELSE Only({cautioned(stopped, prevEdge) :
                     stopped \in {setFacing(reset, occEdge, direction, "stop")},
                     prevEdge \in {IF index > 0 THEN getEdge(net, routeEdgeIds[index])
                                                ELSE Undefined}})
  IN  Only({marked(reset, occEdge, index) :
              reset \in {aspects},
              occEdge \in {getEdge(net, occupiedEdgeId)},
              index \in {occupiedIndex}})

(* TrackNetwork.updateSignalAspects: aspects is the aspect of every signal *)
(* before the call, the result the aspect of every signal after it.  The   *)
(* aspects after each loop are computed once.                              *)
updateSignalAspects(net, aspects, occupiedEdgeId, routeEdgeIds, direction) ==
  LET occupiedIndex == indexOf(routeEdgeIds, occupiedEdgeId)
      cautioned(stopped, prevEdge) == setFacing(stopped, prevEdge, direction, "caution")
      marked(reset, occEdge, index) ==
        IF occupiedEdgeId = NoId THEN reset
        ELSE IF index = -1 THEN reset
        ELSE Only({cautioned(stopped, prevEdge) :
                     stopped \in {setFacing(reset, occEdge, direction, "stop")},
                     prevEdge \in {IF index > 0 THEN getEdge(net, routeEdgeIds[index])
                                                ELSE Undefined}})
  IN  Only({marked(reset, occEdge, index) :
              reset \in {[s \in DOMAIN aspects |-> "clear"]},
              occEdge \in {getEdge(net, occupiedEdgeId)},
              index \in {occupiedIndex}})

(***************************************************************************)
(* The demo layout: 21 stations joined by 20 tracks, as the topology       *)
(* builder returns it (track k runs from node k to node k + 1; the two     *)
(* track ends that meet at a station are one node).  Lengths of the layout *)
(* are in metres, fractions of a track in hundredths.                      *)
(***************************************************************************)
STATIONS ==
  << <<1000, 200>>, <<970, 1300>>, <<940, 2700>>, <<950, 4200>>, <<980, 4900>>,
     <<1020, 6700>>, <<1050, 7400>>, <<1080, 8300>>, <<1100, 9500>>, <<1400, 12500>>,
     <<1350, 13100>>, <<1280, 14000>>, <<1200, 14900>>, <<1150, 15800>>, <<1120, 17100>>,
     <<1100, 18600>>, <<1110, 20600>>, <<1120, 22400>>, <<1130, 24400>>, <<1120, 26700>>,
     <<1110, 29000>> >>

SEGMENT_LENGTHS ==
  <<1100, 1400, 1500, 700, 1800, 700, 900, 1200, 3000, 600,
    900, 900, 900, 1300, 1500, 2000, 1800, 2000, 2300, 2300>>

GRADIENT_PROFILES ==
  << << <<0, -20>>, <<30, -8>>, <<50, 0>>, <<70, 12>>, <<90, 25>> >>,
     << <<0, -25>>, <<30, -10>>, <<50, 0>>, <<70, 15>>, <<90, 30>> >>,
     << <<0, -30>>, <<25, -12>>, <<50, 0>>, <<75, 15>>, <<90, 28>> >>,
     << <<0, -15>>, <<30, -5>>, <<50, 0>>, <<70, 8>>, <<90, 18>> >>,
     << <<0, -35>>, <<25, -15>>, <<50, -2>>, <<70, 18>>, <<90, 35>> >>,
     << <<0, -12>>, <<30, -5>>, <<50, 0>>, <<70, 8>>, <<90, 15>> >>,
     << <<0, -20>>, <<30, -8>>, <<50, 0>>, <<70, 12>>, <<90, 22>> >>,
     << <<0, -28>>, <<30, -10>>, <<50, 0>>, <<70, 14>>, <<90, 30>> >>,
     << <<0, -40>>, <<20, -20>>, <<40, -5>>, <<60, 5>>, <<80, 25>>, <<95, 40>> >>,
     << <<0, -10>>, <<30, -4>>, <<50, 0>>, <<70, 6>>, <<90, 12>> >>,
     << <<0, -18>>, <<30, -8>>, <<50, 0>>, <<70, 10>>, <<90, 22>> >>,
     << <<0, -20>>, <<30, -8>>, <<50, 0>>, <<70, 12>>, <<90, 24>> >>,
     << <<0, -22>>, <<30, -8>>, <<50, 0>>, <<70, 12>>, <<90, 25>> >>,
     << <<0, -28>>, <<30, -12>>, <<50, 0>>, <<70, 15>>, <<90, 30>> >>,
     << <<0, -30>>, <<30, -12>>, <<50, 0>>, <<75, 15>>, <<90, 32>> >>,
     << <<0, -35>>, <<25, -15>>, <<50, -2>>, <<75, 18>>, <<90, 38>> >>,
     << <<0, -32>>, <<30, -12>>, <<50, 0>>, <<70, 15>>, <<90, 35>> >>,
     << <<0, -30>>, <<30, -10>>, <<50, 0>>, <<70, 14>>, <<90, 32>> >>,
     << <<0, -25>>, <<30, -10>>, <<50, 0>>, <<70, 12>>, <<90, 28>> >>,
     << <<0, -20>>, <<30, -8>>, <<50, 0>>, <<70, 10>>, <<90, 22>> >> >>

(* The track that makeTrackXml writes and TopologyBuilder.build turns into *)
(* an edge: three speed ranges, the gradient changes at the rounded        *)
(* fractions of the length, and four signals 50 m from the ends.           *)
DemoEdge(k) ==
  LET len == SEGMENT_LENGTHS[k]
      grad == GRADIENT_PROFILES[k]
  IN  TopoEdge(k, k, k + 1, len * 100,
        [g \in DOMAIN grad |->
           GradientPoint(((grad[g][1] * len + 50) \div 100) * 100, grad[g][2])],
        << PlacedSignal(5000, "forward"), PlacedSignal((len - 50) * 100, "forward"),
           PlacedSignal((len - 50) * 100, "reverse"), PlacedSignal(5000, "reverse") >>,
        IF len > 400
          THEN << SpeedLimit(0, 20000, 1110), SpeedLimit(20000, (len - 200) * 100, 2220),
                  SpeedLimit((len - 200) * 100, len * 100, 1110) >>
          ELSE << SpeedLimit(0, len * 100, 1110) >>)

DemoNode(k) ==
  TopoNode(k, IF k = 1 \/ k = Len(STATIONS) THEN "buffer" ELSE "endpoint",
           STATIONS[k][1], STATIONS[k][2],
           IF k = 1 THEN <<1>> ELSE IF k = Len(STATIONS) THEN <<k - 1>> ELSE <<k - 1, k>>)

DemoNetwork ==
  TrackNetwork([k \in DOMAIN STATIONS |-> DemoNode(k)],
               [k \in DOMAIN SEGMENT_LENGTHS |-> DemoEdge(k)],
               [k \in DOMAIN STATIONS |-> StationInfo(k, STATIONS[k][1], STATIONS[k][2])])

(***************************************************************************)
(* Two small layouts.  SmallNetwork is a chain of three tracks of 1.5 m,   *)
(* 1 m and 30 m between two buffer stops, with a station at every node     *)
(* (the second one 3 m beside its node).  PlainNetwork has two tracks, no  *)
(* buffer stop and no station.                                             *)
(***************************************************************************)
SmallNetwork ==
  TrackNetwork(
    << TopoNode(1, "buffer", 0, 0, <<1>>), TopoNode(2, "endpoint", 0, 100, <<1, 2>>),
       TopoNode(3, "endpoint", 0, 200, <<2, 3>>), TopoNode(4, "buffer", 0, 300, <<3>>) >>,
    << TopoEdge(1, 1, 2, 150, <<GradientPoint(0, -20), GradientPoint(100, 25)>>,
                <<PlacedSignal(50, "forward"), PlacedSignal(50, "reverse")>>,
                <<SpeedLimit(0, 150, 1110)>>),
       TopoEdge(2, 2, 3, 100, <<GradientPoint(0, 0)>>,
                <<PlacedSignal(10, "forward"), PlacedSignal(90, "forward"),
                  PlacedSignal(90, "reverse"), PlacedSignal(10, "reverse")>>,
                <<SpeedLimit(0, 100, 2220)>>),
       TopoEdge(3, 3, 4, 3000, <<GradientPoint(0, -40)>>,
                <<PlacedSignal(2500, "forward")>>,
                <<SpeedLimit(0, 3000, DefaultSpeedLimit)>>) >>,
    << StationInfo(1, 0, 0), StationInfo(2, 3, 101), StationInfo(3, 0, 200),
       StationInfo(4, 0, 300) >>)

PlainNetwork ==
  TrackNetwork(
    << TopoNode(1, "endpoint", 0, 0, <<1>>), TopoNode(2, "endpoint", 0, 50, <<1, 2>>),
       TopoNode(3, "endpoint", 0, 100, <<2>>) >>,
    << TopoEdge(1, 1, 2, 300, <<GradientPoint(0, 10)>>,
                <<PlacedSignal(50, "forward")>>, <<SpeedLimit(0, 300, 1110)>>),
       TopoEdge(2, 2, 3, 500, <<GradientPoint(0, 0)>>,
                <<PlacedSignal(50, "reverse")>>, <<SpeedLimit(0, 500, 1110)>>) >>,
    << >>)

(***************************************************************************)
(* TopologyBuilder.  A track gives an edge with the track's id and two     *)
(* nodes: `${track.id}_begin` is node 2 * id - 1 and `${track.id}_end` is  *)
(* node 2 * id.  Positions are whole metres and are only compared; the     *)
(* track ids of an infrastructure are distinct.                            *)
(***************************************************************************)
MergeThreshold == 5

RailMLTrack(id, beginX, endX, length) ==
  [id |-> id, length |-> length,
   beginPos |-> [x |-> beginX, y |-> 0], endPos |-> [x |-> endX, y |-> 0]]

RailMLBufferStop(trackRef, pos) == [trackRef |-> trackRef, pos |-> pos]

RailMLInfrastructure(tracks, bufferStops, stations) ==
  [tracks |-> tracks, bufferStops |-> bufferStops, stations |-> stations]

BeginNodeId(trackId) == 2 * trackId - 1

EndNodeId(trackId) == 2 * trackId

(* Nodes typed by the track of a buffer stop alone, whatever its pos. *)
createNodesBufferAtBothEnds(infra) ==
  LET hasBuffer(track) ==
        \E k \in DOMAIN infra.bufferStops : infra.bufferStops[k].trackRef = track.id
      nodeOf(track, atBegin) ==
        TopoNode(IF atBegin THEN BeginNodeId(track.id) ELSE EndNodeId(track.id),
                 IF hasBuffer(track) THEN "buffer" ELSE "endpoint",
                 IF atBegin THEN track.beginPos.x ELSE track.endPos.x,
                 IF atBegin THEN track.beginPos.y ELSE track.endPos.y,
                 <<track.id>>)
  IN  [i \in 1..(2 * Len(infra.tracks)) |->
         nodeOf(infra.tracks[(i + 1) \div 2], i % 2 = 1)]

(* The first loop of build: two nodes and one edge per track, a node being *)
(* a buffer when a buffer stop of its track lies at its end of the track.  *)
createNodes(infra) ==
  LET hasBufferAt(track, atBegin) ==
        \E k \in DOMAIN infra.bufferStops :
          /\ infra.bufferStops[k].trackRef = track.id
          /\ (infra.bufferStops[k].pos = 0) = atBegin
      nodeOf(track, atBegin) ==
        TopoNode(IF atBegin THEN BeginNodeId(track.id) ELSE EndNodeId(track.id),
                 IF hasBufferAt(track, atBegin) THEN "buffer" ELSE "endpoint",
                 IF atBegin THEN track.beginPos.x ELSE track.endPos.x,
                 IF atBegin THEN track.beginPos.y ELSE track.endPos.y,
                 <<track.id>>)
  IN  [i \in 1..(2 * Len(infra.tracks)) |->
         nodeOf(infra.tracks[(i + 1) \div 2], i % 2 = 1)]

createEdges(infra) ==
  [k \in DOMAIN infra.tracks |->
     LET track == infra.tracks[k]
     IN  TopoEdge(track.id, BeginNodeId(track.id), EndNodeId(track.id), track.length,
                  <<GradientPoint(0, 0)>>, <<>>,
                  <<SpeedLimit(0, track.length, DefaultSpeedLimit)>>)]

(* resolve of mergeColocatedNodes: follow the merge chain. *)
RECURSIVE resolve(_, _)
resolve(canonical, id) ==
  IF id \in DOMAIN canonical THEN resolve(canonical, canonical[id]) ELSE id

(* nodeMap.get *)
nodeMapGet(nodes, id) ==
  LET hits == {i \in DOMAIN nodes : nodes[i].id = id}
  IN  IF hits = {} THEN Undefined ELSE nodes[CHOOSE i \in hits : TRUE]

(* a.connectedEdges after the pushes of b's edges it does not include. *)
RECURSIVE pushMissing(_, _, _)
pushMissing(list, items, k) ==
  IF k > Len(items) THEN list
  ELSE pushMissing(IF \E i \in DOMAIN list : list[i] = items[k]
                     THEN list ELSE Append(list, items[k]),
                   items, k + 1)

(* A merge that leaves the edges naming the node it removes. *)
mergeIntoWithoutRepointing(st, aId, bId) ==
  LET a == nodeMapGet(st.nodes, aId)
      b == nodeMapGet(st.nodes, bId)
      connected == pushMissing(a.connectedEdges, b.connectedEdges, 1)
      merged == [a EXCEPT !.connectedEdges = connected,
                          !.type = IF Len(connected) > 2 THEN "switch" ELSE @]
      kept(n) == n.id # bId
      remaining == SelectSeq(st.nodes, kept)
  IN  [canonical |-> (bId :> aId) @@ st.canonical,
       nodes |-> [i \in DOMAIN remaining |->
                    IF remaining[i].id = aId THEN merged ELSE remaining[i]],
       edges |-> st.edges]

(* A merge that leaves a's list of edges as it was. *)
mergeIntoWithoutEdges(st, aId, bId) ==
  LET kept(n) == n.id # bId
  IN  [canonical |-> (bId :> aId) @@ st.canonical,
       nodes |-> SelectSeq(st.nodes, kept),
       edges |-> [k \in DOMAIN st.edges |->
                    [st.edges[k] EXCEPT
                       !.startNodeId = IF @ = bId THEN aId ELSE @,
                       !.endNodeId = IF @ = bId THEN aId ELSE @]]]

(* Merge b into a: st holds the canonical map, the node map in insertion   *)
(* order and the edges.                                                    *)
mergeInto(st, aId, bId) ==
  LET a == nodeMapGet(st.nodes, aId)
      b == nodeMapGet(st.nodes, bId)
      connected == pushMissing(a.connectedEdges, b.connectedEdges, 1)
      merged == [a EXCEPT !.connectedEdges = connected,
                          !.type = IF Len(connected) > 2 THEN "switch" ELSE @]
      kept(n) == n.id # bId
      remaining == SelectSeq(st.nodes, kept)
  IN  [canonical |-> (bId :> aId) @@ st.canonical,
       nodes |-> [i \in DOMAIN remaining |->
                    IF remaining[i].id = aId THEN merged ELSE remaining[i]],
       edges |-> [k \in DOMAIN st.edges |->
                    [st.edges[k] EXCEPT
                       !.startNodeId = IF @ = bId THEN aId ELSE @,
                       !.endNodeId = IF @ = bId THEN aId ELSE @]]]

(* The inner loop of mergeColocatedNodes, from j on. *)
RECURSIVE mergeInner(_, _, _, _)
mergeInner(st, nodeIds, aId, j) ==
  IF j > Len(nodeIds) THEN st
  ELSE
    LET bId == resolve(st.canonical, nodeIds[j])
        a == nodeMapGet(st.nodes, aId)
        b == nodeMapGet(st.nodes, bId)
        next == IF aId = bId THEN st
                ELSE IF ~IsDefined(b) THEN st
                ELSE IF DistSq(a.position, b.position) < MergeThreshold * MergeThreshold
                  THEN mergeInto(st, aId, bId)
                ELSE st
    IN  mergeInner(next, nodeIds, aId, j + 1)

(* An outer loop whose inner loop starts one node late, at i + 2. *)
RECURSIVE mergeOuterSkipping(_, _, _)
mergeOuterSkipping(st, nodeIds, i) ==
  IF i > Len(nodeIds) THEN st
  ELSE
    LET aId == resolve(st.canonical, nodeIds[i])
    IN  IF ~IsDefined(nodeMapGet(st.nodes, aId)) THEN mergeOuterSkipping(st, nodeIds, i + 1)
        ELSE mergeOuterSkipping(mergeInner(st, nodeIds, aId, i + 2), nodeIds, i + 1)

(* The outer loop of mergeColocatedNodes, from i on. *)
RECURSIVE mergeOuter(_, _, _)
mergeOuter(st, nodeIds, i) ==
  IF i > Len(nodeIds) THEN st
  ELSE
    LET aId == resolve(st.canonical, nodeIds[i])
    IN  IF ~IsDefined(nodeMapGet(st.nodes, aId)) THEN mergeOuter(st, nodeIds, i + 1)
        ELSE mergeOuter(mergeInner(st, nodeIds, aId, i + 1), nodeIds, i + 1)

(* TopologyBuilder.mergeColocatedNodes: the nodes and edges after the pass. *)
mergeColocatedNodes(nodes, edges) ==
  LET st == mergeOuter([canonical |-> <<>>, nodes |-> nodes, edges |-> edges],
                       [i \in DOMAIN nodes |-> nodes[i].id], 1)
  IN  [nodes |-> st.nodes, edges |-> st.edges]

(* TopologyBuilder.build *)
build(infra) == mergeColocatedNodes(createNodes(infra), createEdges(infra))

(***************************************************************************)
(* TrainDynamics.  m is the object: its fields, and with them the network  *)
(* it holds and the aspect of every signal of that network.                *)
(***************************************************************************)
NoCurves == [null |-> TRUE]

BrakingTarget(d, v, g) == [targetDistance |-> d, targetSpeed |-> v, gradient |-> g]

DefaultDwellTime == 20000

ArrivalDistance == 200

ArrivalSpeed == 30

CoastDrag == 5

createInitialState ==
  [routeEdgeIndex |-> 0, edgeOffset |-> 0, speed |-> 0, acceleration |-> 0,
   throttle |-> 0, brakeMode |-> "none", totalDistance |-> 0, distanceToTarget |-> 0,
   supervisionStatus |-> "normal", dwellRemaining |-> 0, currentStopIndex |-> 0,
   nextStationName |-> NoId]

(* new TrainDynamics(params, network, brakingModel); the braking model is  *)
(* built with, and updateParams keeps it at, the same parameters.          *)
(* signalUpdates is a history field: the number of updateSignalAspects     *)
(* calls the object has made since the call in progress began.             *)
TrainDynamics(params, network) ==
  [state |-> createInitialState, params |-> params, route |-> <<>>, routeEdgeIds |-> <<>>,
   network |-> network, lastCurves |-> NoCurves, finished |-> FALSE, routeTotalLength |-> 0,
   stationStops |-> <<>>, dwellTime |-> DefaultDwellTime, aspect |-> AllClear(network),
   signalUpdates |-> 0]

(* A reset that keeps the curves of the last tick. *)
resetKeepingCurves(m) ==
  LET first == createInitialState
      named == IF Len(m.stationStops) > 0
                 THEN [first EXCEPT !.nextStationName = m.stationStops[1].name]
                 ELSE first
  IN  [m EXCEPT !.state = named, !.finished = FALSE,
                !.aspect = IF Len(m.route) > 0
                             THEN updateSignalAspects(m.network, @, m.route[1].edgeId,
                                                      m.routeEdgeIds, m.route[1].direction)
                             ELSE @,
                !.signalUpdates = IF Len(m.route) > 0 THEN @ + 1 ELSE @]

(* A reset that keeps the index of the next stop. *)
resetKeepingStopIndex(m) ==
  LET first == [createInitialState EXCEPT !.currentStopIndex = m.state.currentStopIndex]
      named == IF Len(m.stationStops) > 0
                 THEN [first EXCEPT !.nextStationName = m.stationStops[1].name]
                 ELSE first
  IN  [m EXCEPT !.state = named, !.lastCurves = NoCurves, !.finished = FALSE,
                !.aspect = IF Len(m.route) > 0
                             THEN updateSignalAspects(m.network, @, m.route[1].edgeId,
                                                      m.routeEdgeIds, m.route[1].direction)
                             ELSE @,
                !.signalUpdates = IF Len(m.route) > 0 THEN @ + 1 ELSE @]

(* TrainDynamics.reset *)
reset(m) ==
  LET first == createInitialState
      named == IF Len(m.stationStops) > 0
                 THEN [first EXCEPT !.nextStationName = m.stationStops[1].name]
                 ELSE first
  IN  [m EXCEPT !.state = named, !.lastCurves = NoCurves, !.finished = FALSE,
                !.aspect = IF Len(m.route) > 0
                             THEN updateSignalAspects(m.network, @, m.route[1].edgeId,
                                                      m.routeEdgeIds, m.route[1].direction)
                             ELSE @,
                !.signalUpdates = IF Len(m.route) > 0 THEN @ + 1 ELSE @]

(* TrainDynamics.setRoute *)
setRoute(m, route) ==
  reset([m EXCEPT !.route = route,
                  !.routeEdgeIds = [i \in DOMAIN route |-> route[i].edgeId],
                  !.routeTotalLength = SumLengths(route, Len(route)),
                  !.stationStops = getStationStopsAlongRoute(m.network, route)])

(* TrainDynamics.setDwellTime *)
setDwellTime(m, seconds) == [m EXCEPT !.dwellTime = seconds]

(* TrainDynamics.updateParams *)
updateParams(m, params) == [m EXCEPT !.params = params]

(* A policy switch that brakes at the full service rate under 'permitted'. *)
ControlFullServiceWhenPermitted(status, speed, maxReachableSpeed, p) ==
  CASE status = "normal" ->
         IF speed * 100 < maxReachableSpeed * 98
           THEN [acceleration |-> p.maxAcceleration, brakeMode |-> "none", throttle |-> 1]
           ELSE [acceleration |-> 0, brakeMode |-> "none", throttle |-> 0]
    [] status = "indication" ->
         [acceleration |-> -CoastDrag, brakeMode |-> "none", throttle |-> 0]
    [] status \in {"permitted", "warning"} ->
         [acceleration |-> -p.serviceBrakeDecel, brakeMode |-> "service", throttle |-> 0]
    [] status = "intervention" ->
         [acceleration |-> -p.emergencyBrakeDecel, brakeMode |-> "emergency", throttle |-> 0]

(* The policy switch of computeControl: acceleration, brake mode, throttle. *)
Control(status, speed, maxReachableSpeed, p) ==
  CASE status = "normal" ->
         IF speed * 100 < maxReachableSpeed * 98
           THEN [acceleration |-> p.maxAcceleration, brakeMode |-> "none", throttle |-> 1]
           ELSE [acceleration |-> 0, brakeMode |-> "none", throttle |-> 0]
    [] status = "indication" ->
         [acceleration |-> -CoastDrag, brakeMode |-> "none", throttle |-> 0]
    [] status = "permitted" ->
         [acceleration |-> -((p.serviceBrakeDecel * 4) \div 10), brakeMode |-> "service",
          throttle |-> 0]
    [] status = "warning" ->
         [acceleration |-> -p.serviceBrakeDecel, brakeMode |-> "service", throttle |-> 0]
    [] status = "intervention" ->
         [acceleration |-> -p.emergencyBrakeDecel, brakeMode |-> "emergency", throttle |-> 0]

(* The target of computeControl: the next stop, or the end of the route. *)
TargetDistance(m) ==
  LET st == m.state
      currentSeg == m.route[st.routeEdgeIndex + 1]
      ahead == IF currentSeg.direction = "forward"
                 THEN currentSeg.endOffset - st.edgeOffset
                 ELSE st.edgeOffset - currentSeg.endOffset
      remainingDist == ahead + SumLengths(m.route, Len(m.route))
                             - SumLengths(m.route, st.routeEdgeIndex + 1)
  IN  IF Len(m.stationStops) > 0 /\ st.currentStopIndex < Len(m.stationStops)
        THEN Max(0, m.stationStops[st.currentStopIndex + 1].distanceAlongRoute
                      - st.totalDistance)
        ELSE Max(0, remainingDist)

(* TrainDynamics.computeControl.  The target distance, the gradient and   *)
(* the curves are each computed once.                                      *)
computeControl(m) ==
  IF Len(m.route) = 0 THEN m
  ELSE IF m.state.routeEdgeIndex >= Len(m.route) THEN [m EXCEPT !.finished = TRUE]
  ELSE
    LET st == m.state
        currentSeg == m.route[st.routeEdgeIndex + 1]
        speedLimit == getSpeedLimitAt(m.network, currentSeg.edgeId, st.edgeOffset)
        controlled(targetDistance, curves, status) ==
          LET c == Control(status, st.speed, Min(m.params.maxSpeed, speedLimit), m.params)
          IN  [m EXCEPT !.lastCurves = curves,
                        !.state = [st EXCEPT !.distanceToTarget = targetDistance,
                                             !.supervisionStatus = status,
                                             !.acceleration = c.acceleration,
                                             !.brakeMode = c.brakeMode,
                                             !.throttle = c.throttle]]
        supervised(targetDistance, curves) ==
          Only({controlled(targetDistance, curves, status) :
                  status \in {getSupervisionStatus(st.speed, targetDistance, curves)}})
        braked(p, targetDistance, gradient) ==
          Only({supervised(targetDistance, curves) :
                  curves \in {computeCurves(p, BrakingTarget(targetDistance, 0, gradient),
                                            <<GradientPoint(0, gradient)>>)}})
    IN  Only({braked(p, targetDistance, gradient) :
                p \in {m.params},
                targetDistance \in {TargetDistance(m)},
                gradient \in {getGradientAt(m.network, currentSeg.edgeId, st.edgeOffset)}})

(* An arrival check that tests the speed only. *)
checkStationArrivalAnywhere(m) ==
  LET st == m.state
      nextStop == m.stationStops[st.currentStopIndex + 1]
      distToStop == nextStop.distanceAlongRoute - st.totalDistance
      stopped == [st EXCEPT !.speed = 0, !.acceleration = 0,
                            !.totalDistance = nextStop.distanceAlongRoute,
                            !.brakeMode = "none", !.distanceToTarget = 0]
      passed == [stopped EXCEPT !.currentStopIndex = @ + 1]
  IN  IF Len(m.stationStops) = 0 THEN [arrived |-> FALSE, m |-> m]
      ELSE IF st.currentStopIndex >= Len(m.stationStops) THEN [arrived |-> FALSE, m |-> m]
      ELSE IF st.speed < ArrivalSpeed
        THEN [arrived |-> TRUE,
              m |-> IF m.dwellTime > 0
                      THEN [m EXCEPT !.state = [stopped EXCEPT !.dwellRemaining = m.dwellTime]]
                    ELSE IF passed.currentStopIndex >= Len(m.stationStops)
                      THEN [m EXCEPT !.state = passed, !.finished = TRUE]
                    ELSE [m EXCEPT !.state =
                            [passed EXCEPT !.nextStationName =
                               m.stationStops[passed.currentStopIndex + 1].name]]]
      ELSE [arrived |-> FALSE, m |-> m]

(* TrainDynamics.checkStationArrival: whether the train arrived, and the   *)
(* object after the check.                                                 *)
checkStationArrival(m) ==
  LET st == m.state
      nextStop == m.stationStops[st.currentStopIndex + 1]
      distToStop == nextStop.distanceAlongRoute - st.totalDistance
      stopped == [st EXCEPT !.speed = 0, !.acceleration = 0,
                            !.totalDistance = nextStop.distanceAlongRoute,
                            !.brakeMode = "none", !.distanceToTarget = 0]
      passed == [stopped EXCEPT !.currentStopIndex = @ + 1]
  IN  IF Len(m.stationStops) = 0 THEN [arrived |-> FALSE, m |-> m]
      ELSE IF st.currentStopIndex >= Len(m.stationStops) THEN [arrived |-> FALSE, m |-> m]
      ELSE IF distToStop < ArrivalDistance /\ st.speed < ArrivalSpeed
        THEN [arrived |-> TRUE,
              m |-> IF m.dwellTime > 0
                      THEN [m EXCEPT !.state = [stopped EXCEPT !.dwellRemaining = m.dwellTime]]
                    ELSE IF passed.currentStopIndex >= Len(m.stationStops)
                      THEN [m EXCEPT !.state = passed, !.finished = TRUE]
                    ELSE [m EXCEPT !.state =
                            [passed EXCEPT !.nextStationName =
                               m.stationStops[passed.currentStopIndex + 1].name]]]
      ELSE [arrived |-> FALSE, m |-> m]

(* The while loop of advanceAlongRoute. *)
RECURSIVE Advance(_, _)
Advance(m, remaining) ==
  IF ~(remaining > 0 /\ m.state.routeEdgeIndex < Len(m.route)) THEN m
  ELSE
    LET st == m.state
        seg == m.route[st.routeEdgeIndex + 1]
        isForward == seg.direction = "forward"
        distToEnd == IF isForward THEN seg.endOffset - st.edgeOffset
                     ELSE st.edgeOffset - seg.endOffset
    IN  IF remaining >= distToEnd
          THEN IF st.routeEdgeIndex + 1 < Len(m.route)
                 THEN Advance([m EXCEPT !.state =
                                 [st EXCEPT !.routeEdgeIndex = @ + 1,
                                            !.edgeOffset = m.route[st.routeEdgeIndex + 2].startOffset]],
                              remaining - distToEnd)
                 ELSE [m EXCEPT !.state = [st EXCEPT !.routeEdgeIndex = @ + 1,
                                                     !.edgeOffset = seg.endOffset,
                                                     !.speed = 0],
                                !.finished = TRUE]
          ELSE [m EXCEPT !.state.edgeOffset = IF isForward THEN @ + remaining ELSE @ - remaining]

(* An advance that stops at the boundary it crosses and drops what is left *)
(* of the displacement.                                                    *)
advanceDroppingLeftover(m, displacement) ==
  IF Len(m.route) = 0 \/ ~(displacement > 0 /\ m.state.routeEdgeIndex < Len(m.route)) THEN m
  ELSE
    LET st == m.state
        seg == m.route[st.routeEdgeIndex + 1]
        isForward == seg.direction = "forward"
        distToEnd == IF isForward THEN seg.endOffset - st.edgeOffset
                     ELSE st.edgeOffset - seg.endOffset
    IN  IF displacement >= distToEnd
          THEN IF st.routeEdgeIndex + 1 < Len(m.route)
                 THEN [m EXCEPT !.state =
                         [st EXCEPT !.routeEdgeIndex = @ + 1,
                                    !.edgeOffset = m.route[st.routeEdgeIndex + 2].startOffset]]
                 ELSE [m EXCEPT !.state = [st EXCEPT !.routeEdgeIndex = @ + 1,
                                                     !.edgeOffset = seg.endOffset,
                                                     !.speed = 0],
                                !.finished = TRUE]
          ELSE [m EXCEPT !.state.edgeOffset =
                           IF isForward THEN @ + displacement ELSE @ - displacement]

(* TrainDynamics.advanceAlongRoute *)
advanceAlongRoute(m, displacement) ==
  IF Len(m.route) = 0 THEN m ELSE Advance(m, displacement)

(* A variant of updateSignals that passes the direction opposite to the    *)
(* segment's.                                                              *)
updateSignalsOpposite(m) ==
  IF Len(m.route) = 0 THEN m
  ELSE LET seg == m.route[Min(m.state.routeEdgeIndex, Len(m.route) - 1) + 1]
           opposite == IF seg.direction = "forward" THEN "reverse" ELSE "forward"
       IN  [m EXCEPT !.aspect = updateSignalAspects(m.network, @, seg.edgeId,
                                                    m.routeEdgeIds, opposite),
                     !.signalUpdates = @ + 1]

(* TrainDynamics.updateSignals *)
updateSignals(m) ==
  IF Len(m.route) = 0 THEN m
  ELSE LET seg == m.route[Min(m.state.routeEdgeIndex, Len(m.route) - 1) + 1]
       IN  [m EXCEPT !.aspect = updateSignalAspects(m.network, @, seg.edgeId,
                                                    m.routeEdgeIds, seg.direction),
                     !.signalUpdates = @ + 1]

(* A variant of the first line of update that tests the route only. *)
returnsOnEmptyRoute(m) == Len(m.route) = 0

(* The first line of update: the call returns at once. *)
returnsAtOnce(m) == m.finished \/ Len(m.route) = 0

(* A dwell that passes over a stop when it ends. *)
dwellSkippingStop(m, dt) ==
  LET held == [m.state EXCEPT !.dwellRemaining = @ - dt, !.speed = 0, !.acceleration = 0,
                              !.brakeMode = "none", !.throttle = 0]
      left == [held EXCEPT !.dwellRemaining = 0, !.currentStopIndex = @ + 2]
  IN  IF held.dwellRemaining <= 0
        THEN IF left.currentStopIndex >= Len(m.stationStops)
               THEN [m EXCEPT !.state = left, !.finished = TRUE]
               ELSE [m EXCEPT !.state =
                       [left EXCEPT !.nextStationName =
                          m.stationStops[left.currentStopIndex + 1].name]]
        ELSE [m EXCEPT !.state = held]

(* The dwell branch of update. *)
dwell(m, dt) ==
  LET held == [m.state EXCEPT !.dwellRemaining = @ - dt, !.speed = 0, !.acceleration = 0,
                              !.brakeMode = "none", !.throttle = 0]
      left == [held EXCEPT !.dwellRemaining = 0, !.currentStopIndex = @ + 1]
  IN  IF held.dwellRemaining <= 0
        THEN IF left.currentStopIndex >= Len(m.stationStops)
               THEN [m EXCEPT !.state = left, !.finished = TRUE]
               ELSE [m EXCEPT !.state =
                       [left EXCEPT !.nextStationName =
                          m.stationStops[left.currentStopIndex + 1].name]]
        ELSE [m EXCEPT !.state = held]

(* speed += acceleration * dt without the clamp. *)
integrateSpeedUnclamped(speed, acceleration, dt, maxSpeed) ==
  speed + (acceleration * dt) \div 1000

(* speed += acceleration * dt, clamped to [0, maxSpeed]. *)
integrateSpeed(speed, acceleration, dt, maxSpeed) ==
  clamp(speed + (acceleration * dt) \div 1000, 0, maxSpeed)

(* The motion part of update: integrate, advance, set the signals. *)
move(m, dt) ==
  LET speed == integrateSpeed(m.state.speed, m.state.acceleration, dt, m.params.maxSpeed)
      displacement == (speed * dt) \div 1000
      moved == [m EXCEPT !.state = [m.state EXCEPT !.speed = speed,
                                                   !.totalDistance = @ + displacement]]
  IN  updateSignals(advanceAlongRoute(moved, displacement))

(* TrainDynamics.update *)
update(m, dt) ==
  IF returnsAtOnce(m) THEN m
  ELSE IF m.state.dwellRemaining > 0 THEN dwell(m, dt)
  ELSE Only({IF arrival.arrived THEN arrival.m ELSE move(arrival.m, dt) :
               arrival \in {checkStationArrival(controlled) :
                              controlled \in {computeControl(m)}}})

(* A getter that hands out the state object itself. *)
getStateByReference(m) == [object |-> "this.state", fields |-> m.state]

(* TrainDynamics.getState: { ...this.state } is a new object that holds    *)
(* the value of every own field of the state; every field of a TrainState  *)
(* is a number or a string, so nothing of the new object is shared.        *)
getState(m) == [object |-> "new", fields |-> [f \in DOMAIN m.state |-> m.state[f]]]

(* TrainDynamics.getOccupiedEdgeId *)
getOccupiedEdgeId(m) ==
  IF Len(m.route) = 0 THEN NoId
  ELSE m.route[Min(m.state.routeEdgeIndex, Len(m.route) - 1) + 1].edgeId

(***************************************************************************)
(* State.  The fields of the TrainDynamics object, the network it holds    *)
(* and the aspect of every signal; the braking model applied on its own    *)
(* (bm...); and three history variables: the last call made (lastCall),    *)
(* what could be observed just before it (pre), and the number of update   *)
(* calls since the last reset, counted within a window (ticks).  A call of *)
(* a function of the route generator or of the topology builder is kept    *)
(* with its arguments in args and what it returned in returned.            *)
(***************************************************************************)
VARIABLES bmParams, bmTarget, bmProfile, bmCurves, bmQuery, bmStatus,
          network, aspect,
          state, params, route, routeEdgeIds, stationStops, dwellTime,
          lastCurves, finished, routeTotalLength,
          lastCall, pre, ticks,
          args, returned

bmVars == <<bmParams, bmTarget, bmProfile, bmCurves, bmQuery, bmStatus>>

tdVars == <<network, aspect, state, params, route, routeEdgeIds, stationStops, dwellTime,
            lastCurves, finished, routeTotalLength>>

vars == <<bmParams, bmTarget, bmProfile, bmCurves, bmQuery, bmStatus,
          network, aspect,
          state, params, route, routeEdgeIds, stationStops, dwellTime,
          lastCurves, finished, routeTotalLength,
          lastCall, pre, ticks,
          args, returned>>

fnVars == <<args, returned>>

(* The TrainDynamics object of the current state. *)
Machine ==
  [state |-> state, params |-> params, route |-> route, routeEdgeIds |-> routeEdgeIds,
   network |-> network, lastCurves |-> lastCurves, finished |-> finished,
   routeTotalLength |-> routeTotalLength, stationStops |-> stationStops,
   dwellTime |-> dwellTime, aspect |-> aspect, signalUpdates |-> 0]

Holds(m) ==
  /\ state = m.state /\ params = m.params /\ route = m.route
  /\ routeEdgeIds = m.routeEdgeIds /\ network = m.network /\ lastCurves = m.lastCurves
  /\ finished = m.finished /\ routeTotalLength = m.routeTotalLength
  /\ stationStops = m.stationStops /\ dwellTime = m.dwellTime /\ aspect = m.aspect

Becomes(m) ==
  /\ state' = m.state /\ params' = m.params /\ route' = m.route
  /\ routeEdgeIds' = m.routeEdgeIds /\ network' = m.network /\ lastCurves' = m.lastCurves
  /\ finished' = m.finished /\ routeTotalLength' = m.routeTotalLength
  /\ stationStops' = m.stationStops /\ dwellTime' = m.dwellTime /\ aspect' = m.aspect

(* What a caller can observe of the object: getState, isFinished,          *)
(* getCurves, the signal aspects, and whether a route is set.              *)
Observed(m) ==
  [state |-> m.state, finished |-> m.finished, lastCurves |-> m.lastCurves,
   aspect |-> m.aspect, routeLength |-> Len(m.route)]

Unobserved == [none |-> TRUE]

(* ---- bounds ---- *)
TickWindow == 128

MaxTicks == 4

MaxTargetMetres == 4

MaxSlopeSteps == 2

NontrivialRun == 100

(* ---- inputs ---- *)
(* The step the pipeline test makes, the frame step and the steps the      *)
(* animation controller makes at speed multipliers up to 10, and longer.   *)
Dts == {0, 50, 100, 25000}

DwellTimes == {0, DefaultDwellTime}

ParamChoices == {DEFAULT_TRAIN_PARAMS, TrainParameters(2780, 20, 30, 60, 110, 5000, 2500)}

Networks == {SmallNetwork, PlainNetwork}

(* The routes the network hands out: none, the default route, the paths   *)
(* from its first node and the path from its last node to its first.       *)
Routes(net) ==
  {<<>>, generateDefaultRoute(net)}
    \cup {findPath(net, net.nodes[1].id, net.nodes[b].id) : b \in DOMAIN net.nodes}
    \cup {findPath(net, net.nodes[Len(net.nodes)].id, net.nodes[1].id)}

(* Parameters the sliders of the application can set: the largest service *)
(* and the smallest emergency deceleration.                                *)
CustomParams == TrainParameters(2220, 100, 150, 40, 108, 2000, 1000)

(* The target and profile of the pipeline test. *)
TestTarget == BrakingTarget(200000, 0, 0)

FlatProfile == <<GradientPoint(0, 0)>>

(* A target far enough for the integration to reach the runaway cap. *)
FarTarget == BrakingTarget(1200000, 0, 0)

(* Short targets (0, half a metre, whole metres), two target speeds and    *)
(* one-point profiles from downhill to uphill in steps of 20 per mille,    *)
(* as computeControl builds them, and a two-point profile.                 *)
SmallDistances == {0, 50} \cup {100 * k : k \in 1..MaxTargetMetres}

Slopes == {20 * k : k \in (-MaxSlopeSteps)..MaxSlopeSteps}

SmallProfiles ==
  {<<GradientPoint(0, g)>> : g \in Slopes}
    \cup {<<GradientPoint(0, -20), GradientPoint(150, 25)>>}

Queries ==
  {[speed |-> 10, distance |-> 500000], [speed |-> 4000, distance |-> 10000],
   [speed |-> 500, distance |-> 200000], [speed |-> 0, distance |-> 0],
   [speed |-> 150, distance |-> 120]}

(* Edge ids for updateSignalAspects: the edges of the network, null, and   *)
(* an id no edge has; route id lists without repetition.                   *)
UnknownEdgeId == 9

OccupiedIds(net) == {NoId, UnknownEdgeId} \cup {net.edges[i].id : i \in DOMAIN net.edges}

RouteIdLists(net) ==
  LET ids == {net.edges[i].id : i \in DOMAIN net.edges} \cup {UnknownEdgeId}
      distinct(list) == \A i \in DOMAIN list, j \in DOMAIN list : i # j => list[i] # list[j]
  IN  {list \in UNION {[1..n -> ids] : n \in 0..3} : distinct(list)}

Directions == {"forward", "reverse"}

PriorAspects(net) ==
  {AllClear(net), [s \in SignalKeys(net) |-> "stop"],
   [s \in SignalKeys(net) |-> IF s[2] = 1 THEN "caution" ELSE "stop"]}

(* ---- layouts for the route generator ---- *)
(* Node and station ids nothing has. *)
UnknownNodeId == 99

UnknownStationId == 9

(* Track layouts on a line, positions in metres and lengths in cm: chains  *)
(* of one, two and three tracks between two buffer stops (the tracks of    *)
(* the longest laid in both senses and listed out of order), a chain with  *)
(* no buffer stop that is listed from its middle track, a branch with      *)
(* three buffer stops, a ring of four tracks, two separate tracks, two     *)
(* tracks side by side between the same places, and no track at all.       *)
RouteLayouts ==
  { RailMLInfrastructure(
      <<RailMLTrack(1, 0, 100, 10000)>>,
      <<RailMLBufferStop(1, 0), RailMLBufferStop(1, 10000)>>,
      <<StationInfo(1, 0, 0), StationInfo(2, 100, 0)>>),
    RailMLInfrastructure(
      <<RailMLTrack(1, 0, 100, 10000), RailMLTrack(2, 100, 250, 15000)>>,
      <<RailMLBufferStop(1, 0), RailMLBufferStop(2, 15000)>>,
      <<StationInfo(1, 0, 0), StationInfo(2, 102, 0), StationInfo(3, 250, 0)>>),
    RailMLInfrastructure(
      <<RailMLTrack(2, 220, 100, 12000), RailMLTrack(1, 0, 100, 10000),
        RailMLTrack(3, 220, 370, 15000)>>,
      <<RailMLBufferStop(3, 15000), RailMLBufferStop(1, 0)>>,
      <<StationInfo(1, 0, 0), StationInfo(2, 220, 0), StationInfo(3, 370, 0)>>),
    RailMLInfrastructure(
      <<RailMLTrack(2, 100, 220, 12000), RailMLTrack(1, 0, 100, 10000),
        RailMLTrack(3, 220, 370, 15000)>>,
      <<>>,
      <<StationInfo(1, 0, 0), StationInfo(2, 370, 0)>>),
    RailMLInfrastructure(
      <<RailMLTrack(1, 0, 100, 10000), RailMLTrack(2, 100, 220, 12000),
        RailMLTrack(3, 100, 370, 27000)>>,
      <<RailMLBufferStop(1, 0), RailMLBufferStop(2, 12000), RailMLBufferStop(3, 27000)>>,
      <<StationInfo(1, 0, 0), StationInfo(2, 220, 0), StationInfo(3, 370, 0)>>),
    RailMLInfrastructure(
      <<RailMLTrack(1, 0, 100, 10000), RailMLTrack(2, 100, 220, 12000),
        RailMLTrack(3, 220, 370, 15000), RailMLTrack(4, 370, 0, 37000)>>,
      <<>>,
      <<StationInfo(1, 0, 0), StationInfo(2, 100, 0), StationInfo(3, 370, 0)>>),
    RailMLInfrastructure(
      <<RailMLTrack(1, 0, 100, 10000), RailMLTrack(2, 500, 620, 12000)>>,
      <<RailMLBufferStop(1, 0), RailMLBufferStop(2, 12000)>>,
      <<StationInfo(1, 0, 0), StationInfo(2, 620, 0)>>),
    RailMLInfrastructure(
      <<RailMLTrack(1, 0, 100, 10000), RailMLTrack(2, 0, 100, 15000)>>,
      <<>>,
      <<StationInfo(1, 0, 0), StationInfo(2, 100, 0)>>),
    RailMLInfrastructure(<<>>, <<>>, <<StationInfo(1, 0, 0)>>) }

(* The network the application makes of a layout. *)
NetworkOf(infra) ==
  LET topology == build(infra)
  IN  TrackNetwork(topology.nodes, topology.edges, infra.stations)

NodeIds(net) == {net.nodes[i].id : i \in DOMAIN net.nodes} \cup {UnknownNodeId}

StationIds(net) == {net.stations[i].id : i \in DOMAIN net.stations} \cup {UnknownStationId}

(* ---- layouts for the merge pass ---- *)
TracksPerLayout == 3

(* Tracks on a line whose near ends lie within a few metres of each other  *)
(* (at 0, 2, 4, 7 and 9 m, and a short track from -3 m to 3 m) and whose   *)
(* far ends lie apart, one of them at the far end of another track; and a  *)
(* track of 3 m on its own, whose two ends are within the threshold.       *)
MergeTracks ==
  << RailMLTrack(1, 0, 100, 10000), RailMLTrack(2, 2, 200, 20000),
     RailMLTrack(3, 4, 300, 30000), RailMLTrack(4, 7, 400, 40000),
     RailMLTrack(5, 500, 9, 50000), RailMLTrack(6, 100, 600, 50000),
     RailMLTrack(7, -3, 3, 600), RailMLTrack(8, 700, 703, 300) >>

(* The layouts of one to TracksPerLayout of these tracks, in the order of  *)
(* the list, and the orders their tracks can be listed in.                 *)
MergeLayouts ==
  LET picks == {S \in SUBSET DOMAIN MergeTracks :
                  Cardinality(S) >= 1 /\ Cardinality(S) <= TracksPerLayout}
      kth(S, k) == CHOOSE i \in S : Cardinality({j \in S : j < i}) = k - 1
  IN  {RailMLInfrastructure([k \in 1..Cardinality(S) |-> MergeTracks[kth(S, k)]], <<>>, <<>>) :
         S \in picks}

(* Buffer stops for a layout, each at an end of a track and no two at the  *)
(* same end: none, one at the begin or at the end of the first track, one  *)
(* at the begin of the first and one at the end of the last track, and one *)
(* at every end of every track.                                            *)
BufferStopLists(infra) ==
  LET n == Len(infra.tracks)
      first == infra.tracks[1]
      last == infra.tracks[n]
  IN  { <<>>,
        <<RailMLBufferStop(first.id, 0)>>,
        <<RailMLBufferStop(first.id, first.length)>>,
        <<RailMLBufferStop(first.id, 0), RailMLBufferStop(last.id, last.length)>>,
        [i \in 1..(2 * n) |->
           RailMLBufferStop(infra.tracks[(i + 1) \div 2].id,
                            IF i % 2 = 1 THEN 0 ELSE infra.tracks[(i + 1) \div 2].length)] }

Orders(n) == {p \in [1..n -> 1..n] : \A i \in 1..n, j \in 1..n : i # j => p[i] # p[j]}

Reordered(infra, order) ==
  [infra EXCEPT !.tracks = [k \in DOMAIN order |-> infra.tracks[order[k]]]]

(* ---- what a caller may write into a TrainState it was handed ---- *)
Writes ==
  <<[field |-> "speed", value |-> 999], [field |-> "dwellRemaining", value |-> 0],
    [field |-> "routeEdgeIndex", value |-> 7], [field |-> "brakeMode", value |-> "emergency"]>>

(* The five values of SupervisionStatus. *)
SupervisionStatuses == {"normal", "indication", "permitted", "warning", "intervention"}

(* Speeds either side of 98% of each cap that ControlLimits and            *)
(* ParamChoices give, in cm/s.                                             *)
ControlSpeeds == {0, 979, 980, 2175, 2176, 2220, 2724, 2725, 3000}

(* Local speed limits: below, and above, every maxSpeed in ParamChoices. *)
ControlLimits == {1000, DefaultSpeedLimit}

(* The distance along the route of a position: the segments before it and  *)
(* the part of its segment behind it.                                      *)
Along(segments, routeEdgeIndex, edgeOffset) ==
  IF routeEdgeIndex >= Len(segments) THEN SumLengths(segments, Len(segments))
  ELSE SumLengths(segments, routeEdgeIndex)
         + Abs(edgeOffset - segments[routeEdgeIndex + 1].startOffset)

(* Speeds of a train under way, in cm/s. *)
PlacedSpeeds == {0, 1000, 2000}

(* The start, the middle and the end of a segment. *)
PlacedOffsets(seg) ==
  {seg.startOffset, (seg.startOffset + seg.endOffset) \div 2, seg.endOffset}

(* A TrainDynamics under way on its route: on segment routeEdgeIndex at    *)
(* edgeOffset, at the speed given, the stops behind it passed.             *)
Placed(m, routeEdgeIndex, edgeOffset, speed) ==
  LET totalDistance == Along(m.route, routeEdgeIndex, edgeOffset)
      passed == Cardinality({i \in DOMAIN m.stationStops :
                               m.stationStops[i].distanceAlongRoute < totalDistance})
  IN  [m EXCEPT !.state =
         [@ EXCEPT !.routeEdgeIndex = routeEdgeIndex, !.edgeOffset = edgeOffset,
                   !.speed = speed, !.totalDistance = totalDistance,
                   !.currentStopIndex = passed,
                   !.nextStationName = IF passed < Len(m.stationStops)
                                         THEN m.stationStops[passed + 1].name ELSE @]]

(* Target distances for the loop of computeBrakingCurve, in cm: none, less *)
(* than a step, a few steps, just under and at 500 steps of 1 m, and       *)
(* longer ones whose steps are longer than 1 m.                            *)
LoopDistances == {0, 50, 250, 1000, 49950, 50000, 200000, 1200000}

(* The calls computeCurves makes of computeBrakingCurve, and calls without *)
(* reaction time, on a flat, a downhill and a two-point profile.           *)
LoopCallsWith(p) ==
  {[op |-> "computeBrakingCurve", params |-> p, targetSpeed |-> v, targetDistance |-> d,
    deceleration |-> b, reactionTime |-> t, gradientProfile |-> profile, pc |-> "loop"] :
     v \in {0, 500}, d \in LoopDistances,
     b \in {p.serviceBrakeDecel, p.emergencyBrakeDecel},
     t \in {0, p.reactionTimeEmergency},
     profile \in {FlatProfile, <<GradientPoint(0, -40)>>,
                  <<GradientPoint(0, -20), GradientPoint(150, 25)>>}}

LoopCalls == LoopCallsWith(DEFAULT_TRAIN_PARAMS) \cup LoopCallsWith(CustomParams)

(* Speed multipliers the slider and the keys can set, in tenths: 0.1, 1    *)
(* and 10.                                                                 *)
SpeedMultipliers == {1, 10, 100}

(* Times between two animation frames, in ms. *)
FrameDeltas == {0, 16, 1000}

(* The 0.05 s of the loop and the 0.1 s of step, in ms. *)
LoopMaxDt == 50

StepDt == 100

(* Speeds, in cm/s, and distances to the target, in cm, for pairs of       *)
(* getSupervisionStatus calls.                                             *)
PairSpeeds == {0, 10, 150, 500, 2000, 4000}

PairDistances == {0, 120, 10000, 200000, 500000}

(* A curve set as computeCurves returns it, and the same curves handed     *)
(* over in the opposite order.                                             *)
CurveOrders == {"computed", "opposite"}

Ordered(curves, order) ==
  IF order = "computed" THEN curves
  ELSE [curves EXCEPT !.emergencyBrake = curves.indication, !.indication = curves.emergencyBrake,
                      !.warning = curves.permitted, !.permitted = curves.warning]

(***************************************************************************)
(* Initial states.                                                         *)
(***************************************************************************)
BmIdle ==
  /\ bmParams = DEFAULT_TRAIN_PARAMS
  /\ bmTarget = TestTarget
  /\ bmProfile = FlatProfile
  /\ bmCurves = NoCurves
  /\ bmQuery = [speed |-> 0, distance |-> 0]
  /\ bmStatus = "none"

(* No function called yet. *)
FnIdle ==
  /\ args = [op |-> "none"]
  /\ returned = Undefined

(* A TrainDynamics just constructed. *)
Constructed(m) ==
  /\ Holds(m)
  /\ lastCall = [op |-> "new"]
  /\ pre = Unobserved
  /\ ticks = 0

Init ==
  /\ BmIdle
  /\ FnIdle
  /\ \E net \in Networks : Constructed(TrainDynamics(DEFAULT_TRAIN_PARAMS, net))

(* The pipeline test: the demo layout, default parameters, the default     *)
(* route set.                                                              *)
InitDemo ==
  /\ BmIdle
  /\ FnIdle
  /\ Holds(setRoute(TrainDynamics(DEFAULT_TRAIN_PARAMS, DemoNetwork),
                    generateDefaultRoute(DemoNetwork)))
  /\ lastCall = [op |-> "setRoute", signalUpdates |-> 1]
  /\ pre = Unobserved
  /\ ticks = 0

InitSignals ==
  /\ BmIdle
  /\ FnIdle
  /\ \E old \in PriorAspects(SmallNetwork) :
       LET m == TrainDynamics(DEFAULT_TRAIN_PARAMS, SmallNetwork)
       IN  Constructed([m EXCEPT !.aspect = old])

InitBm ==
  /\ \/ /\ bmParams = DEFAULT_TRAIN_PARAMS
        /\ bmTarget \in {TestTarget, FarTarget}
        /\ bmProfile = FlatProfile
     \/ /\ bmParams = CustomParams
        /\ bmTarget = TestTarget
        /\ bmProfile = FlatProfile
     \/ /\ bmParams \in TRAIN_PRESETS \cup {CustomParams}
        /\ bmTarget \in {BrakingTarget(d, v, 0) : d \in SmallDistances, v \in {0, 500}}
        /\ bmProfile \in SmallProfiles
  /\ bmCurves = NoCurves
  /\ bmQuery = [speed |-> 0, distance |-> 0]
  /\ bmStatus = "none"
  /\ Constructed(TrainDynamics(bmParams, PlainNetwork))
  /\ FnIdle

(***************************************************************************)
(* Actions: one per call.                                                  *)
(***************************************************************************)
Called(op) ==
  /\ lastCall' = op
  /\ pre' = IF op.op = "update" THEN Observed(Machine) ELSE Unobserved
  /\ UNCHANGED <<bmVars, fnVars>>

SetRoute(r) ==
  /\ \E after \in {setRoute(Machine, r)} :
       /\ Becomes(after)
       /\ Called([op |-> "setRoute", signalUpdates |-> after.signalUpdates])
  /\ ticks' = 0

Reset ==
  /\ \E after \in {reset(Machine)} :
       /\ Becomes(after)
       /\ Called([op |-> "reset", signalUpdates |-> after.signalUpdates])
  /\ ticks' = 0

SetDwellTime(seconds) ==
  /\ Becomes(setDwellTime(Machine, seconds))
  /\ Called([op |-> "setDwellTime"])
  /\ UNCHANGED ticks

UpdateParams(p) ==
  /\ Becomes(updateParams(Machine, p))
  /\ Called([op |-> "updateParams"])
  /\ UNCHANGED ticks

Update(dt) ==
  /\ \E m \in {Machine} : \E after \in {update(m, dt)} :
       /\ Becomes(after)
       /\ Called([op |-> "update", dt |-> dt, signalUpdates |-> after.signalUpdates])
  /\ ticks' = (ticks + 1) % TickWindow

UpdateSignalAspects(occupiedEdgeId, routeEdgeIdList, direction) ==
  /\ aspect' = updateSignalAspects(network, aspect, occupiedEdgeId, routeEdgeIdList, direction)
  /\ lastCall' = [op |-> "updateSignalAspects", occupiedEdgeId |-> occupiedEdgeId,
                  routeEdgeIds |-> routeEdgeIdList, direction |-> direction]
  /\ UNCHANGED <<bmVars, network, state, params, route, routeEdgeIds, stationStops,
                 dwellTime, lastCurves, finished, routeTotalLength, pre, ticks, fnVars>>

ComputeCurves ==
  /\ bmCurves = NoCurves
  /\ bmCurves' = computeCurves(bmParams, bmTarget, bmProfile)
  /\ UNCHANGED <<bmParams, bmTarget, bmProfile, bmQuery, bmStatus, tdVars, lastCall, pre, ticks,
                 fnVars>>

Classify(q) ==
  /\ bmCurves # NoCurves
  /\ bmStatus = "none"
  /\ bmQuery' = q
  /\ bmStatus' = getSupervisionStatus(q.speed, q.distance, bmCurves)
  /\ UNCHANGED <<bmParams, bmTarget, bmProfile, bmCurves, tdVars, lastCall, pre, ticks,
                 fnVars>>

(***************************************************************************)
(* Specifications.                                                         *)
(***************************************************************************)
(* Any sequence of calls on a TrainDynamics, MaxTicks updates per reset. *)
Next ==
  \/ \E r \in Routes(network) : SetRoute(r)
  \/ Reset
  \/ \E s \in DwellTimes : SetDwellTime(s)
  \/ \E p \in ParamChoices : UpdateParams(p)
  \/ \E dt \in Dts : ticks < MaxTicks /\ Update(dt)

Spec == Init /\ [][Next]_vars

(* The pipeline test's loop: update(0.05) again and again, never stopped. *)
NextDemo == Update(50)

SpecDemo == InitDemo /\ [][NextDemo]_vars /\ WF_vars(NextDemo)

(* updateSignalAspects on its own. *)
NextSignals ==
  \E occ \in OccupiedIds(network), ids \in RouteIdLists(network), dir \in Directions :
    UpdateSignalAspects(occ, ids, dir)

SpecSignals == InitSignals /\ [][NextSignals]_vars

(* computeCurves and getSupervisionStatus on their own. *)
NextBm ==
  \/ ComputeCurves
  \/ \E q \in Queries : Classify(q)

SpecCurves == InitBm /\ [][NextBm]_vars

(***************************************************************************)
(* The route generator on the networks the topology builder makes.        *)
(***************************************************************************)
InitRoutes ==
  /\ BmIdle
  /\ FnIdle
  /\ \E infra \in RouteLayouts :
       Constructed(TrainDynamics(DEFAULT_TRAIN_PARAMS, NetworkOf(infra)))

Returns(call, value) ==
  /\ args' = call
  /\ returned' = value
  /\ UNCHANGED <<bmVars, tdVars, lastCall, pre, ticks>>

FindPath(startNodeId, endNodeId) ==
  Returns([op |-> "findPath", startNodeId |-> startNodeId, endNodeId |-> endNodeId],
          findPath(network, startNodeId, endNodeId))

GenerateDefaultRoute ==
  Returns([op |-> "generateDefaultRoute"], generateDefaultRoute(network))

GenerateRouteBetweenStations(fromStationId, toStationId) ==
  Returns([op |-> "generateRouteBetweenStations",
           fromStationId |-> fromStationId, toStationId |-> toStationId],
          generateRouteBetweenStations(network, fromStationId, toStationId))

NextRoutes ==
  \/ \E a \in NodeIds(network), b \in NodeIds(network) : FindPath(a, b)
  \/ GenerateDefaultRoute
  \/ \E f \in StationIds(network), t \in StationIds(network) :
       GenerateRouteBetweenStations(f, t)

SpecRoutes == InitRoutes /\ [][NextRoutes]_vars

(***************************************************************************)
(* The topology builder on a layout whose tracks are listed in any order,  *)
(* and the merge pass run once more on what the builder returned.          *)
(***************************************************************************)
InitMerge ==
  /\ BmIdle
  /\ \E infra \in MergeLayouts :
       /\ Constructed(TrainDynamics(DEFAULT_TRAIN_PARAMS, NetworkOf(infra)))
       /\ args = [op |-> "none", infra |-> infra]
  /\ returned = Undefined

Build(order, bufferStops) ==
  /\ args.op = "none"
  /\ Returns([op |-> "build", infra |-> args.infra, order |-> order,
              bufferStops |-> bufferStops],
             build(Reordered([args.infra EXCEPT !.bufferStops = bufferStops], order)))

MergeColocatedNodes ==
  /\ args.op = "build"
  /\ Returns([op |-> "mergeColocatedNodes", infra |-> args.infra, order |-> args.order,
              bufferStops |-> args.bufferStops,
              nodes |-> returned.nodes, edges |-> returned.edges],
             mergeColocatedNodes(returned.nodes, returned.edges))

NextMerge ==
  \/ \E order \in Orders(Len(args.infra.tracks)),
        bufferStops \in BufferStopLists(args.infra) : Build(order, bufferStops)
  \/ MergeColocatedNodes

SpecMerge == InitMerge /\ [][NextMerge]_vars

(***************************************************************************)
(* A caller that asks for the state and writes into the object it got.     *)
(* The write goes to the object the caller holds; it reaches the state of  *)
(* the TrainDynamics only if that object is the state object itself.       *)
(***************************************************************************)
GetState ==
  /\ args' = [op |-> "getState"]
  /\ returned' = getState(Machine)
  /\ UNCHANGED <<bmVars, tdVars, lastCall, pre, ticks>>

WriteReturned(w) ==
  /\ args.op \in {"getState", "write"}
  /\ args' = [op |-> "write", field |-> w.field, value |-> w.value]
  /\ returned' = [returned EXCEPT !.fields[w.field] = w.value]
  /\ state' = IF returned.object = "this.state" THEN [state EXCEPT ![w.field] = w.value]
              ELSE state
  /\ UNCHANGED <<bmVars, network, aspect, params, route, routeEdgeIds, stationStops,
                 dwellTime, lastCurves, finished, routeTotalLength, lastCall, pre, ticks>>

NextCopy ==
  \/ \E r \in {generateDefaultRoute(network)} : SetRoute(r)
  \/ Reset
  \/ \E dt \in Dts : ticks < MaxTicks /\ Update(dt)
  \/ GetState
  \/ \E k \in DOMAIN Writes : WriteReturned(Writes[k])

SpecCopy == Init /\ [][NextCopy]_vars

(***************************************************************************)
(* Two runs.  A second TrainDynamics on the same layout (twin, held in     *)
(* returned) first has a history of its own; then both objects are given   *)
(* the same parameters, dwell time and route, and the same updates.        *)
(***************************************************************************)
InitTwin ==
  /\ BmIdle
  /\ \E net \in Networks :
       /\ Constructed(TrainDynamics(DEFAULT_TRAIN_PARAMS, net))
       /\ returned = TrainDynamics(DEFAULT_TRAIN_PARAMS, net)
  /\ args = [op |-> "twin", phase |-> "history", ticks |-> 0]

(* The second object after a call; the count of signal updates is kept    *)
(* per call and starts at 0 with the next.                                 *)
Twin(m) == [m EXCEPT !.signalUpdates = 0]

MainIdle == UNCHANGED <<bmVars, tdVars, lastCall, pre, ticks>>

TwinSetRoute(r) ==
  /\ args.phase = "history"
  /\ returned' = Twin(setRoute(returned, r))
  /\ args' = [args EXCEPT !.ticks = 0]
  /\ MainIdle

TwinSetDwellTime(seconds) ==
  /\ args.phase = "history"
  /\ returned' = Twin(setDwellTime(returned, seconds))
  /\ UNCHANGED args
  /\ MainIdle

TwinUpdateParams(p) ==
  /\ args.phase = "history"
  /\ returned' = Twin(updateParams(returned, p))
  /\ UNCHANGED args
  /\ MainIdle

TwinUpdate(dt) ==
  /\ args.phase = "history"
  /\ args.ticks < MaxTicks
  /\ returned' = Twin(update(returned, dt))
  /\ args' = [args EXCEPT !.ticks = @ + 1]
  /\ MainIdle

BothUpdateParams(p) ==
  /\ args.phase = "history"
  /\ Becomes(updateParams(Machine, p))
  /\ returned' = Twin(updateParams(returned, p))
  /\ args' = [args EXCEPT !.phase = "params"]
  /\ lastCall' = [op |-> "updateParams"]
  /\ UNCHANGED <<bmVars, pre, ticks>>

BothSetDwellTime(seconds) ==
  /\ args.phase = "params"
  /\ Becomes(setDwellTime(Machine, seconds))
  /\ returned' = Twin(setDwellTime(returned, seconds))
  /\ args' = [args EXCEPT !.phase = "dwellTime"]
  /\ lastCall' = [op |-> "setDwellTime"]
  /\ UNCHANGED <<bmVars, pre, ticks>>

BothSetRoute(r) ==
  /\ args.phase = "dwellTime"
  /\ Becomes(setRoute(Machine, r))
  /\ returned' = Twin(setRoute(returned, r))
  /\ args' = [args EXCEPT !.phase = "running", !.ticks = 0]
  /\ lastCall' = [op |-> "setRoute", signalUpdates |-> 1]
  /\ ticks' = 0
  /\ UNCHANGED <<bmVars, pre>>

BothUpdate(dt) ==
  /\ args.phase = "running"
  /\ ticks < MaxTicks
  /\ \E m \in {Machine} : \E after \in {update(m, dt)} :
       /\ Becomes(after)
       /\ lastCall' = [op |-> "update", dt |-> dt, signalUpdates |-> after.signalUpdates]
       /\ pre' = Observed(m)
  /\ returned' = Twin(update(returned, dt))
  /\ args' = [args EXCEPT !.ticks = @ + 1]
  /\ ticks' = (ticks + 1) % TickWindow
  /\ UNCHANGED bmVars

NextTwin ==
  \/ \E r \in Routes(network) : TwinSetRoute(r)
  \/ \E s \in DwellTimes : TwinSetDwellTime(s)
  \/ \E p \in ParamChoices : TwinUpdateParams(p)
  \/ \E dt \in Dts : TwinUpdate(dt)
  \/ \E p \in ParamChoices : BothUpdateParams(p)
  \/ \E s \in DwellTimes : BothSetDwellTime(s)
  \/ \E r \in Routes(network) : BothSetRoute(r)
  \/ \E dt \in Dts : BothUpdate(dt)

SpecTwin == InitTwin /\ [][NextTwin]_vars

(***************************************************************************)
(* The policy switch of computeControl on its own.                         *)
(***************************************************************************)
ControlSwitch(status, speed, speedLimit, p) ==
  Returns([op |-> "control", status |-> status, speed |-> speed, speedLimit |-> speedLimit,
           params |-> p],
          Control(status, speed, Min(p.maxSpeed, speedLimit), p))

NextControl ==
  \E status \in SupervisionStatuses, speed \in ControlSpeeds, speedLimit \in ControlLimits,
     p \in ParamChoices :
    ControlSwitch(status, speed, speedLimit, p)

SpecControl == Init /\ [][NextControl]_vars

(***************************************************************************)
(* update on a train under way: any position on any route, at a speed.    *)
(***************************************************************************)
InitPlaced ==
  /\ BmIdle
  /\ FnIdle
  /\ \E net \in Networks : \E r \in Routes(net) :
       \E m \in {setRoute(TrainDynamics(DEFAULT_TRAIN_PARAMS, net), r)} :
         IF Len(r) = 0 THEN Constructed(m)
         ELSE \E k \in 0..(Len(r) - 1) :
                \E offset \in PlacedOffsets(r[k + 1]), speed \in PlacedSpeeds :
                  Constructed(Twin(Placed(m, k, offset, speed)))

NextAdvance == \E dt \in Dts : ticks < MaxTicks /\ Update(dt)

SpecAdvance == InitPlaced /\ [][NextAdvance]_vars

(***************************************************************************)
(* getStationStopsAlongRoute on the routes the network generates.          *)
(***************************************************************************)
GetStationStopsAlongRoute ==
  /\ args.op \in {"findPath", "generateDefaultRoute", "generateRouteBetweenStations"}
  /\ Returns([op |-> "getStationStopsAlongRoute", route |-> returned],
             getStationStopsAlongRoute(network, returned))

NextStops ==
  \/ \E a \in NodeIds(network), b \in NodeIds(network) : FindPath(a, b)
  \/ GenerateDefaultRoute
  \/ \E f \in StationIds(network), t \in StationIds(network) :
       GenerateRouteBetweenStations(f, t)
  \/ GetStationStopsAlongRoute

SpecStops == InitRoutes /\ [][NextStops]_vars

(***************************************************************************)
(* computeBrakingCurve pass by pass: the while loop runs for as long as    *)
(* its condition holds, then the reaction-time shift is made.              *)
(***************************************************************************)
InitLoop ==
  /\ BmIdle
  /\ Constructed(TrainDynamics(DEFAULT_TRAIN_PARAMS, PlainNetwork))
  /\ args \in LoopCalls
  /\ returned = [d |-> args.targetDistance, vSq |-> args.targetSpeed * args.targetSpeed,
                 v |-> args.targetSpeed,
                 curve |-> <<[distance |-> args.targetDistance, speed |-> args.targetSpeed]>>,
                 done |-> FALSE]

(* while (d > 0) { ... }: one pass; done marks a break. *)
LoopPass ==
  /\ args.pc = "loop" /\ returned.d > 0 /\ ~returned.done
  /\ Returns(args, IntegrateStep(args.params, args.deceleration, args.gradientProfile,
                                 Max(MinStep, args.targetDistance \div StepsPerCurve),
                                 returned))

(* The loop is left; the distances are shifted and the curve returned. *)
LoopLeave ==
  /\ args.pc = "loop" /\ (returned.d <= 0 \/ returned.done)
  /\ Returns([args EXCEPT !.pc = "returned"],
             [returned EXCEPT !.curve = ShiftByReaction(@, args.reactionTime)])

NextLoop == LoopPass \/ LoopLeave

SpecLoop == InitLoop /\ [][NextLoop]_vars /\ WF_vars(NextLoop)

(***************************************************************************)
(* The AnimationController, kept in args: play, pause, stop, setSpeed,     *)
(* step and the frame loop, on a TrainDynamics whose route the             *)
(* application sets.                                                       *)
(***************************************************************************)
InitAnimation ==
  /\ BmIdle
  /\ \E net \in Networks : Constructed(TrainDynamics(DEFAULT_TRAIN_PARAMS, net))
  /\ args = [op |-> "AnimationController", isPlaying |-> FALSE, speedMultiplier |-> 10]
  /\ returned = Undefined

(* trainDynamics.update(dt) made by the controller through entry. *)
ControllerUpdate(entry, dt) ==
  /\ ticks < MaxTicks
  /\ \E m \in {Machine} : \E after \in {update(m, dt)} :
       /\ Becomes(after)
       /\ lastCall' = [op |-> "update", dt |-> dt, signalUpdates |-> after.signalUpdates,
                       entry |-> entry, speedMultiplier |-> args.speedMultiplier]
       /\ pre' = Observed(m)
  /\ ticks' = (ticks + 1) % TickWindow
  /\ UNCHANGED <<bmVars, returned>>

Play ==
  /\ ~args.isPlaying
  /\ args' = [args EXCEPT !.isPlaying = TRUE]
  /\ UNCHANGED <<bmVars, tdVars, lastCall, pre, ticks, returned>>

Pause ==
  /\ args' = [args EXCEPT !.isPlaying = FALSE]
  /\ UNCHANGED <<bmVars, tdVars, lastCall, pre, ticks, returned>>

Stop ==
  /\ args' = [args EXCEPT !.isPlaying = FALSE]
  /\ \E after \in {reset(Machine)} :
       /\ Becomes(after)
       /\ lastCall' = [op |-> "reset", signalUpdates |-> after.signalUpdates]
  /\ pre' = Unobserved
  /\ ticks' = 0
  /\ UNCHANGED <<bmVars, returned>>

SetSpeed(multiplier) ==
  /\ args' = [args EXCEPT !.speedMultiplier = multiplier]
  /\ UNCHANGED <<bmVars, tdVars, lastCall, pre, ticks, returned>>

Step ==
  /\ ControllerUpdate("step", (StepDt * args.speedMultiplier) \div 10)
  /\ UNCHANGED args

(* A frame of the loop, scheduled while playing: delta ms after the last. *)
Loop(delta) ==
  /\ args.isPlaying
  /\ IF ~finished
       THEN ControllerUpdate("loop", (Min(delta, LoopMaxDt) * args.speedMultiplier) \div 10)
       ELSE UNCHANGED <<bmVars, tdVars, lastCall, pre, ticks, returned>>
  /\ args' = [args EXCEPT !.isPlaying = ~finished']

NextAnimation ==
  \/ SetRoute(generateDefaultRoute(network))
  \/ Play
  \/ Pause
  \/ Stop
  \/ \E multiplier \in SpeedMultipliers : SetSpeed(multiplier)
  \/ Step
  \/ \E delta \in FrameDeltas : Loop(delta)

SpecAnimation == InitAnimation /\ [][NextAnimation]_vars

(***************************************************************************)
(* getSupervisionStatus called twice on one curve set and one distance,    *)
(* at two speeds.                                                          *)
(***************************************************************************)
ClassifyTwice(lower, higher, distanceToTarget, order) ==
  /\ bmCurves # NoCurves /\ args.op = "none"
  /\ lower <= higher
  /\ \E curves \in {Ordered(bmCurves, order)} :
       Returns([op |-> "getSupervisionStatus", lower |-> lower, higher |-> higher,
                distanceToTarget |-> distanceToTarget, order |-> order],
               [lower |-> getSupervisionStatus(lower, distanceToTarget, curves),
                higher |-> getSupervisionStatus(higher, distanceToTarget, curves)])

NextPairs ==
  \/ ComputeCurves
  \/ \E lower \in PairSpeeds, higher \in PairSpeeds, distanceToTarget \in PairDistances,
        order \in CurveOrders :
       ClassifyTwice(lower, higher, distanceToTarget, order)

SpecPairs == InitBm /\ [][NextPairs]_vars

(***************************************************************************)
(* Properties of the braking model (SpecCurves).                           *)
(***************************************************************************)
CurveNames == {"emergencyBrake", "serviceBrake", "warning", "permitted", "indication"}

PointDistances(curves) ==
  UNION {{curves[c][i].distance : i \in DOMAIN curves[c]} : c \in CurveNames}

(* computeCurves has just returned: its result is in bmCurves and has not  *)
(* been put to use yet.                                                    *)
Returned == bmCurves # NoCurves /\ bmStatus = "none"

(* The allowed speed the classifier reads off curve c at distance q. *)
AllowedAt(c, q) == speedAtDist(bmCurves[c], q)

EndOf(c) == bmCurves[c][Len(bmCurves[c])].distance

(* Order(q, Rel): Rel holds of the allowed speeds on the emergencyBrake,   *)
(* warning, permitted and indication curves at q, where all four are       *)
(* defined.                                                                *)
Order(q, Rel(_, _, _, _)) ==
  LET e == AllowedAt("emergencyBrake", q)
      w == AllowedAt("warning", q)
      p == AllowedAt("permitted", q)
      i == AllowedAt("indication", q)
  IN  (e # NaN /\ w # NaN /\ p # NaN /\ i # NaN) => Rel(e, w, p, i)

Classified(speed, distance) ==
  /\ bmParams = DEFAULT_TRAIN_PARAMS /\ bmTarget = TestTarget /\ bmProfile = FlatProfile
  /\ bmStatus # "none"
  /\ bmQuery = [speed |-> speed, distance |-> distance]

(* C3: on the curves for a target at 2000 m with target speed 0, flat      *)
(* track, default parameters, a train at 0.1 m/s that is 5000 m from the   *)
(* target is classified 'normal'.                                          *)
C3_SlowAndFarIsNormal == Classified(10, 500000) => bmStatus = "normal"

(* C4: on the same curves, a train at 40 m/s that is 100 m from the target *)
(* is classified as something other than 'normal'.                         *)
C4_FastAndNearIsSupervised == Classified(4000, 10000) => bmStatus # "normal"

(* C5 as stated: at every distance the curves share, the allowed speeds    *)
(* are ordered indication >= permitted >= warning >= emergencyBrake.       *)
C5_OrderAsStated ==
  Returned =>
    \A q \in PointDistances(bmCurves) :
      LET stated(e, w, p, i) == i >= p /\ p >= w /\ w >= e
      IN  Order(q, stated)

(* C5 amended: at every curve-point distance where the interpolation is    *)
(* defined, the order is the reverse one: emergencyBrake >= warning and    *)
(* permitted >= indication; and warning >= permitted when the emergency    *)
(* deceleration is at least the service deceleration and the warning       *)
(* curve ends no nearer than the permitted curve.                          *)
C5_OrderOfCurves ==
  Returned =>
    \A q \in PointDistances(bmCurves) :
      LET reversed(e, w, p, i) ==
            /\ e >= w
            /\ p >= i
            /\ (/\ bmParams.emergencyBrakeDecel >= bmParams.serviceBrakeDecel
                /\ EndOf("warning") >= EndOf("permitted")) => w >= p
      IN  Order(q, reversed)

(* The curves of the pipeline test, 100 m from the target: four different  *)
(* allowed speeds.                                                         *)
C5_Witness ==
  /\ Returned /\ bmTarget = TestTarget
  /\ AllowedAt("indication", 10000) # NaN
  /\ AllowedAt("emergencyBrake", 10000) > AllowedAt("warning", 10000)
  /\ AllowedAt("warning", 10000) > AllowedAt("permitted", 10000)
  /\ AllowedAt("permitted", 10000) > AllowedAt("indication", 10000)

(* C6: every point of every returned curve has a distance from 0 to the    *)
(* target distance and a speed that is a number >= 0, and only the top of  *)
(* a curve (its first point, and the copy of it put at distance 0) can lie *)
(* above the runaway cap.                                                  *)
C6_PointsFiniteNonNegative ==
  Returned =>
    \A c \in CurveNames : \A i \in DOMAIN bmCurves[c] :
      LET pt == bmCurves[c][i]
      IN  /\ pt.distance >= 0 /\ pt.distance <= bmTarget.targetDistance
          /\ pt.speed # NaN /\ pt.speed >= 0 /\ pt.speed < Infinity
          /\ i > 2 => pt.speed <= RunawaySpeed

(* The indication curve of the pipeline test: its nearest points were     *)
(* shifted past the train and are held at distance 0.                      *)
C6_Witness ==
  /\ Returned /\ bmTarget = TestTarget
  /\ bmCurves.indication[1].distance = 0 /\ bmCurves.indication[2].distance = 0
  /\ bmCurves.indication[1].speed > bmCurves.indication[2].speed

(***************************************************************************)
(* Properties of the pipeline test's run (SpecDemo).                       *)
(***************************************************************************)
(* C1: on the demo layout with default parameters and the default route,   *)
(* update(0.05) called again and again eventually makes isFinished() true. *)
C1_DemoRunFinishes == <>finished

(* C2: when the first stop is more than 2 m ahead, a run of NontrivialRun  *)
(* update calls with dt > 0 since setRoute has increased totalDistance.    *)
C2_RunMakesProgress ==
  (/\ Len(stationStops) > 0
   /\ stationStops[1].distanceAlongRoute > ArrivalDistance
   /\ lastCall.op = "update" /\ lastCall.dt > 0
   /\ ticks >= NontrivialRun)
    => state.totalDistance > 0

(***************************************************************************)
(* Properties of TrainDynamics under any sequence of calls (Spec).         *)
(***************************************************************************)
(* C7: update(dt) on a finished train or with an empty route changes       *)
(* neither the TrainState nor the finished flag, the last curves or a      *)
(* signal aspect; so a finished train stays finished under update.         *)
C7_UpdateIsNoOpWhenDone ==
  (lastCall.op = "update" /\ (pre.finished \/ pre.routeLength = 0))
    => Observed(Machine) = pre

C7_Witness ==
  /\ lastCall.op = "update" /\ lastCall.dt > 0
  /\ pre.finished /\ pre.routeLength > 0 /\ finished

(* C8: after every update(dt) with dt >= 0 the speed lies in               *)
(* [0, maxSpeed] and totalDistance is >= 0.                                *)
C8_SpeedAndDistanceInRange ==
  (lastCall.op = "update" /\ lastCall.dt >= 0)
    => /\ state.speed >= 0 /\ state.speed <= params.maxSpeed
       /\ state.totalDistance >= 0

(* An update that went through the integration with a brake applied. *)
C8_Witness ==
  /\ lastCall.op = "update" /\ lastCall.dt > 0
  /\ ~pre.finished /\ pre.state.dwellRemaining = 0
  /\ state.acceleration < 0 /\ state.dwellRemaining = 0 /\ ~finished

(* C9: update applies at most SafeMaxDt of the dt it is given: a tick      *)
(* takes no more than that off the dwell time and moves the train no       *)
(* further than maxSpeed * SafeMaxDt, however large dt is (a tick that     *)
(* arrives at a stop places the train on the stop and is not counted).     *)
SafeMaxDt == 50

C9_DtIsClamped ==
  (lastCall.op = "update" /\ ~pre.finished /\ pre.routeLength > 0)
    => /\ pre.state.dwellRemaining - state.dwellRemaining <= SafeMaxDt
       /\ (/\ pre.state.dwellRemaining = 0 /\ state.dwellRemaining = 0
           /\ state.currentStopIndex = pre.state.currentStopIndex)
            => state.totalDistance - pre.state.totalDistance
                 <= (params.maxSpeed * SafeMaxDt) \div 1000

(***************************************************************************)
(* Properties of updateSignalAspects (SpecSignals).                        *)
(***************************************************************************)
(* C10: after updateSignalAspects(occupiedEdgeId, routeEdgeIds, direction) *)
(* the signals facing direction on the occupied edge are 'stop', those on  *)
(* the route edge just before it 'caution', every other signal 'clear';    *)
(* with occupiedEdgeId null or not in routeEdgeIds every signal is         *)
(* 'clear'.                                                                *)
C10_AspectsAfterUpdate ==
  lastCall.op = "updateSignalAspects" =>
    LET occ == lastCall.occupiedEdgeId
        ids == lastCall.routeEdgeIds
        inRoute == occ # NoId /\ \E i \in DOMAIN ids : ids[i] = occ
        at == CHOOSE i \in DOMAIN ids : ids[i] = occ
        facing(s) == getEdge(network, s[1]).signals[s[2]].direction = lastCall.direction
    IN  \A s \in SignalKeys(network) :
          aspect[s] = IF inRoute /\ s[1] = occ /\ facing(s) THEN "stop"
                      ELSE IF inRoute /\ at > 1 /\ s[1] = ids[at - 1] /\ facing(s)
                        THEN "caution"
                      ELSE "clear"

C10_Witness ==
  /\ lastCall.op = "updateSignalAspects"
  /\ \E s \in SignalKeys(network), t \in SignalKeys(network), u \in SignalKeys(network) :
       aspect[s] = "stop" /\ aspect[t] = "caution" /\ aspect[u] = "clear"

(***************************************************************************)
(* Signal aspects against the TrainState (Spec).                           *)
(***************************************************************************)
(* C11: whenever a route is set, the 'stop' signals are exactly those on   *)
(* the occupied edge (getOccupiedEdgeId) that face the direction of the    *)
(* current route segment, the 'caution' signals exactly those facing that  *)
(* direction on the route edge before it, every other signal is 'clear';   *)
(* and one update, reset or setRoute calls updateSignalAspects at most     *)
(* once.                                                                   *)
C11_AspectsFollowTrainState ==
  /\ Len(route) > 0 =>
       LET index == Min(state.routeEdgeIndex, Len(route) - 1)
           seg == route[index + 1]
           facing(s) == getEdge(network, s[1]).signals[s[2]].direction = seg.direction
       IN  /\ getOccupiedEdgeId(Machine) = seg.edgeId
           /\ \A s \in SignalKeys(network) :
                aspect[s] = IF s[1] = seg.edgeId /\ facing(s) THEN "stop"
                            ELSE IF index > 0 /\ s[1] = route[index].edgeId /\ facing(s)
                              THEN "caution"
                            ELSE "clear"
  /\ lastCall.op \in {"update", "reset", "setRoute"} => lastCall.signalUpdates <= 1

(* An update that moved on to updateSignals, with a signal at 'stop'. *)
C11_Witness ==
  /\ lastCall.op = "update" /\ lastCall.signalUpdates = 1
  /\ \E s \in SignalKeys(network) : aspect[s] = "stop"

(***************************************************************************)
(* Routes.  The graph of a network as its edges join nodes, whichever way  *)
(* an edge is laid.                                                        *)
(***************************************************************************)
Joined(net, nodeIds) ==
  nodeIds
    \cup {net.edges[k].endNodeId : k \in {i \in DOMAIN net.edges : net.edges[i].startNodeId \in nodeIds}}
    \cup {net.edges[k].startNodeId : k \in {i \in DOMAIN net.edges : net.edges[i].endNodeId \in nodeIds}}

RECURSIVE WithinSteps(_, _, _)
WithinSteps(net, nodeIds, k) ==
  IF k = 0 THEN nodeIds ELSE WithinSteps(net, Joined(net, nodeIds), k - 1)

(* The least number of edges from a to b, -1 when b cannot be reached. *)
EdgeDistance(net, a, b) ==
  LET steps == {k \in 0..Len(net.edges) : b \in WithinSteps(net, {a}, k)}
  IN  IF steps = {} THEN -1 ELSE CHOOSE k \in steps : \A j \in steps : k <= j

(* The node a segment is entered at and the one it is left at. *)
EntryNode(net, seg) ==
  IF seg.direction = "forward" THEN getEdge(net, seg.edgeId).startNodeId
  ELSE getEdge(net, seg.edgeId).endNodeId

ExitNode(net, seg) ==
  IF seg.direction = "forward" THEN getEdge(net, seg.edgeId).endNodeId
  ELSE getEdge(net, seg.edgeId).startNodeId

(* A segment that runs the whole of an edge of the network in its sense. *)
WholeEdge(net, seg) ==
  /\ IsDefined(getEdge(net, seg.edgeId))
  /\ seg.direction \in {"forward", "reverse"}
  /\ seg.startOffset = IF seg.direction = "forward" THEN 0 ELSE getEdge(net, seg.edgeId).length
  /\ seg.endOffset = IF seg.direction = "forward" THEN getEdge(net, seg.edgeId).length ELSE 0

(* r leads from a to b, each segment leaving at the node the next enters. *)
LeadsFromTo(net, r, a, b) ==
  /\ Len(r) > 0
  /\ \A i \in DOMAIN r : WholeEdge(net, r[i])
  /\ EntryNode(net, r[1]) = a
  /\ ExitNode(net, r[Len(r)]) = b
  /\ \A i \in 1..(Len(r) - 1) : ExitNode(net, r[i]) = EntryNode(net, r[i + 1])

(* C12: for distinct nodes start and end, findPath returns a chain of      *)
(* segments that leads from start to end over the least possible number    *)
(* of edges, and the empty list exactly when end cannot be reached.        *)
C12_FindPathIsShortest ==
  (args.op = "findPath" /\ args.startNodeId # args.endNodeId) =>
    LET least == EdgeDistance(network, args.startNodeId, args.endNodeId)
    IN  IF least < 0 THEN returned = <<>>
        ELSE /\ LeadsFromTo(network, returned, args.startNodeId, args.endNodeId)
             /\ Len(returned) = least

(* A path of two edges found across the ring of four, where the other way  *)
(* round also has two and the ways to the neighbours have one and three.   *)
C12_Witness ==
  /\ args.op = "findPath"
  /\ Len(network.edges) = 4 /\ Len(network.nodes) = 4
  /\ Len(returned) = 2

(* An unreachable end: the empty list. *)
C12_WitnessUnreachable ==
  /\ args.op = "findPath"
  /\ args.startNodeId \in NodeIds(network) \ {UnknownNodeId}
  /\ args.endNodeId \in NodeIds(network) \ {UnknownNodeId, args.startNodeId}
  /\ returned = <<>>

(* Every node of the network can be reached from its first node. *)
Connected(net) ==
  /\ Len(net.nodes) > 0
  /\ {net.nodes[i].id : i \in DOMAIN net.nodes}
       \subseteq WithinSteps(net, {net.nodes[1].id}, Len(net.edges))

(* C13: on a connected network made by the topology builder, for two nodes *)
(* a and b, findPath(a, b) and findPath(b, a) both return a non-empty      *)
(* route, and the two routes have the same number of segments.             *)
C13_BothWaysSucceed ==
  (/\ args.op = "findPath"
   /\ Connected(network)
   /\ args.startNodeId # args.endNodeId
   /\ {args.startNodeId, args.endNodeId} \subseteq NodeIds(network) \ {UnknownNodeId}) =>
    LET back == findPath(network, args.endNodeId, args.startNodeId)
    IN  /\ Len(returned) > 0
        /\ Len(back) > 0
        /\ Len(back) = Len(returned)

(* A path of three edges on a connected network, one of them taken against *)
(* the sense it was laid in.                                               *)
C13_Witness ==
  /\ args.op = "findPath"
  /\ Connected(network)
  /\ Len(returned) = 3
  /\ \E i \in DOMAIN returned : returned[i].direction = "reverse"

(* The station has a node in the station-node map. *)
Mapped(net, stationId) == stationNodeMapGet(net, stationId) # NoId

(* C14: generateRouteBetweenStations returns a non-empty route on a        *)
(* network with at least one edge; when a station id has no node, or       *)
(* findPath finds no path either way, it returns the route of              *)
(* generateDefaultRoute; every segment it returns names an edge of the     *)
(* network.                                                                *)
C14_FallsBackToDefaultRoute ==
  args.op = "generateRouteBetweenStations" =>
    LET from == stationNodeMapGet(network, args.fromStationId)
        to == stationNodeMapGet(network, args.toStationId)
        noPath == /\ findPath(network, from, to) = <<>>
                  /\ findPath(network, to, from) = <<>>
    IN  /\ Len(network.edges) >= 1 => Len(returned) > 0
        /\ (~Mapped(network, args.fromStationId) \/ ~Mapped(network, args.toStationId) \/ noPath)
             => returned = generateDefaultRoute(network)
        /\ \A i \in DOMAIN returned : IsDefined(getEdge(network, returned[i].edgeId))

(* Two stations with nodes and no path between them either way, on a       *)
(* network with edges: the default route comes back.                       *)
C14_Witness ==
  /\ args.op = "generateRouteBetweenStations"
  /\ Mapped(network, args.fromStationId) /\ Mapped(network, args.toStationId)
  /\ args.fromStationId # args.toStationId
  /\ EdgeDistance(network, stationNodeMapGet(network, args.fromStationId),
                  stationNodeMapGet(network, args.toStationId)) < 0
  /\ Len(returned) > 0

(* A station id the map does not hold. *)
C14_WitnessUnmapped ==
  /\ args.op = "generateRouteBetweenStations"
  /\ ~Mapped(network, args.fromStationId)
  /\ Len(network.edges) >= 1
  /\ Len(returned) > 0

(* The number of edges that end at a node, an edge from a node to itself   *)
(* counted twice.                                                          *)
Degree(net, nodeId) ==
  Cardinality({i \in DOMAIN net.edges : net.edges[i].startNodeId = nodeId})
    + Cardinality({i \in DOMAIN net.edges : net.edges[i].endNodeId = nodeId})

BufferNodeIds(net) == {net.nodes[i].id : i \in {k \in DOMAIN net.nodes : net.nodes[k].type = "buffer"}}

(* A linear chain of tracks with a buffer stop at each of its two ends. *)
ChainBetweenBuffers(net) ==
  /\ Len(net.edges) >= 1
  /\ Len(net.nodes) = Len(net.edges) + 1
  /\ Connected(net)
  /\ Cardinality(BufferNodeIds(net)) = 2
  /\ \A i \in DOMAIN net.nodes :
       Degree(net, net.nodes[i].id) = IF net.nodes[i].type = "buffer" THEN 1 ELSE 2

RECURSIVE TrackLengths(_, _)
TrackLengths(net, n) ==
  IF n <= 0 THEN 0 ELSE TrackLengths(net, n - 1) + net.edges[n].length

(* C15: on a linear chain of N tracks with buffer stops at both ends,      *)
(* generateDefaultRoute returns N segments that lead from one buffer node  *)
(* to the other and run every edge once, so the lengths of the segments    *)
(* add up to the sum of the track lengths.                                 *)
C15_DefaultRouteOnChain ==
  (args.op = "generateDefaultRoute" /\ ChainBetweenBuffers(network)) =>
    /\ Len(returned) = Len(network.edges)
    /\ \E a \in BufferNodeIds(network), b \in BufferNodeIds(network) :
         a # b /\ LeadsFromTo(network, returned, a, b)
    /\ \A k \in DOMAIN network.edges :
         Cardinality({i \in DOMAIN returned : returned[i].edgeId = network.edges[k].id}) = 1
    /\ SumLengths(returned, Len(returned)) = TrackLengths(network, Len(network.edges))

(* The default route of the chain of three tracks, one of them run against *)
(* the sense it was laid in.                                               *)
C15_Witness ==
  /\ args.op = "generateDefaultRoute"
  /\ ChainBetweenBuffers(network)
  /\ Len(returned) = 3
  /\ \E i \in DOMAIN returned : returned[i].direction = "reverse"

(* The edges that can be reached in the graph from the first edge, the one *)
(* buildSequentialRoute starts with.                                       *)
ReachableEdgeIds(net) ==
  LET nodeIds == WithinSteps(net, {net.edges[1].startNodeId, net.edges[1].endNodeId},
                             Len(net.edges))
  IN  {net.edges[k].id : k \in {i \in DOMAIN net.edges : net.edges[i].startNodeId \in nodeIds}}

Occurrences(r, edgeId) == Cardinality({i \in DOMAIN r : r[i].edgeId = edgeId})

(* C16: with fewer than two buffer nodes, generateDefaultRoute returns a   *)
(* traversal that holds every edge reachable in the graph from its         *)
(* starting edge exactly once: none is left out and none is repeated.      *)
C16_EveryReachableEdgeOnce ==
  (/\ args.op = "generateDefaultRoute"
   /\ Len(network.edges) >= 1
   /\ Cardinality(BufferNodeIds(network)) < 2) =>
    /\ \A id \in ReachableEdgeIds(network) : Occurrences(returned, id) = 1
    /\ \A i \in DOMAIN returned : returned[i].edgeId \in ReachableEdgeIds(network)

(* What does hold of the traversal: it starts with the first edge, every   *)
(* edge it holds can be reached, and none is repeated.                     *)
SequentialRouteNeverRepeats ==
  (/\ args.op = "generateDefaultRoute"
   /\ Len(network.edges) >= 1
   /\ Cardinality(BufferNodeIds(network)) < 2) =>
    /\ Len(returned) >= 1 /\ returned[1].edgeId = network.edges[1].id
    /\ \A i \in DOMAIN returned :
         /\ returned[i].edgeId \in ReachableEdgeIds(network)
         /\ Occurrences(returned, returned[i].edgeId) = 1

(* The edges that join two nodes, whichever way they are laid. *)
EdgesBetween(net, a, b) ==
  {k \in DOMAIN net.edges :
     \/ net.edges[k].startNodeId = a /\ net.edges[k].endNodeId = b
     \/ net.edges[k].startNodeId = b /\ net.edges[k].endNodeId = a}

(* The nodes at the place of a station; none for an id no station has. *)
NodesAtStation(net, stationId) ==
  {net.nodes[n].id : n \in {i \in DOMAIN net.nodes :
     \E k \in DOMAIN net.stations :
       net.stations[k].id = stationId /\ net.stations[k].position = net.nodes[i].position}}

(* C17: for two stations at the two end nodes of a single track, with no   *)
(* other track between the two nodes, generateRouteBetweenStations returns *)
(* one segment, of that track, whose length is the length of the track.    *)
C17_AdjacentStationsOneSegment ==
  args.op = "generateRouteBetweenStations" =>
    \A a \in NodesAtStation(network, args.fromStationId),
       b \in NodesAtStation(network, args.toStationId) :
      (a # b /\ Cardinality(EdgesBetween(network, a, b)) = 1) =>
        /\ Len(returned) = 1
        /\ \A k \in EdgesBetween(network, a, b) :
             /\ returned[1].edgeId = network.edges[k].id
             /\ SegLength(returned[1]) = network.edges[k].length

(* Two stations one track apart, asked for against the sense of the track. *)
C17_Witness ==
  /\ args.op = "generateRouteBetweenStations"
  /\ \E a \in NodesAtStation(network, args.fromStationId),
        b \in NodesAtStation(network, args.toStationId) :
       a # b /\ Cardinality(EdgesBetween(network, a, b)) = 1
  /\ Len(returned) = 1
  /\ returned[1].direction = "reverse"

(***************************************************************************)
(* The merge pass.  The endpoints of a layout are the two nodes of each of *)
(* its tracks; after the pass the node an endpoint has become part of is   *)
(* the one its track's edge names at that end.                             *)
(***************************************************************************)
Endpoints(infra) ==
  UNION {{BeginNodeId(infra.tracks[k].id), EndNodeId(infra.tracks[k].id)} :
           k \in DOMAIN infra.tracks}

TrackOf(endpoint) == (endpoint + 1) \div 2

PlaceOf(infra, endpoint) ==
  LET track == infra.tracks[CHOOSE k \in DOMAIN infra.tracks :
                              infra.tracks[k].id = TrackOf(endpoint)]
  IN  IF endpoint = BeginNodeId(track.id) THEN track.beginPos ELSE track.endPos

Survivor(topology, endpoint) ==
  LET edge == topology.edges[CHOOSE k \in DOMAIN topology.edges :
                               topology.edges[k].id = TrackOf(endpoint)]
  IN  IF endpoint = BeginNodeId(edge.id) THEN edge.startNodeId ELSE edge.endNodeId

(* The groups of endpoints merged into one surviving node. *)
Groups(infra, topology) ==
  {{other \in Endpoints(infra) : Survivor(topology, other) = Survivor(topology, e)} :
     e \in Endpoints(infra)}

Near(p, q) == DistSq(p, q) < MergeThreshold * MergeThreshold

(* C18: the merge pass gives the same groups of merged endpoints for every *)
(* order the tracks are listed in, chains A - B - C with A and C not       *)
(* within the threshold of each other included.                            *)
C18_MergeIsOrderIndependent ==
  args.op = "build" =>
    Groups(args.infra, returned) = Groups(args.infra, build(args.infra))

(* Three different endpoints, each within the threshold of the two others, *)
(* with every other endpoint at least the threshold away from all three.   *)
MutualTriples(infra) ==
  {t \in [1..3 -> Endpoints(infra)] :
     /\ t[1] < t[2] /\ t[2] < t[3]
     /\ \A i \in 1..3, j \in 1..3 : Near(PlaceOf(infra, t[i]), PlaceOf(infra, t[j]))
     /\ \A other \in Endpoints(infra) \ {t[1], t[2], t[3]} :
          \A i \in 1..3 : ~Near(PlaceOf(infra, other), PlaceOf(infra, t[i]))}

C20_MergeIsIdempotent ==
  /\ args.op = "build" =>
       \A i \in DOMAIN returned.nodes, j \in DOMAIN returned.nodes :
         i # j => ~Near(returned.nodes[i].position, returned.nodes[j].position)
  /\ args.op = "mergeColocatedNodes" =>
       /\ returned.nodes = args.nodes
       /\ returned.edges = args.edges

(* A second pass over the output of a first pass that had merged nodes. *)
C20_Witness ==
  /\ args.op = "mergeColocatedNodes"
  /\ Len(args.nodes) < 2 * Len(args.infra.tracks)
  /\ Len(returned.nodes) = Len(args.nodes)

(* No two endpoints of the layout are within the merge threshold of each   *)
(* other, the two ends of one track included.                              *)
NoSharedEndpoints(infra) ==
  \A e \in Endpoints(infra), other \in Endpoints(infra) :
    e # other => ~Near(PlaceOf(infra, e), PlaceOf(infra, other))

BufferCount(nodes) == Cardinality({i \in DOMAIN nodes : nodes[i].type = "buffer"})

(* C21: the topology of N tracks with distinct ids and no shared endpoints *)
(* has 2 * N nodes and N edges; with no buffer stop none of the nodes is a *)
(* buffer, and with M buffer stops on distinct track ends exactly M are.   *)
C21_NodeAndEdgeCounts ==
  (args.op = "build" /\ NoSharedEndpoints(args.infra)) =>
    /\ Len(returned.nodes) = 2 * Len(args.infra.tracks)
    /\ Len(returned.edges) = Len(args.infra.tracks)
    /\ BufferCount(returned.nodes) = Len(args.bufferStops)

(* Three tracks apart from each other with two buffer stops. *)
C21_Witness ==
  /\ args.op = "build" /\ NoSharedEndpoints(args.infra)
  /\ Len(args.infra.tracks) = 3
  /\ Len(args.bufferStops) = 2
  /\ BufferCount(returned.nodes) = 2

(* The ids of the edges that have the node as start or end. *)
IdsAt(edges, nodeId) ==
  {edges[k].id : k \in {i \in DOMAIN edges :
                          edges[i].startNodeId = nodeId \/ edges[i].endNodeId = nodeId}}

(* C22: after build on tracks with distinct ids every edge's start and end *)
(* node is in the node list, a node's connectedEdges holds exactly the ids *)
(* of the edges that start or end at it, and a node is a 'switch' only if  *)
(* it has at least 3 connected edges.                                      *)
C22_GraphIsConsistent ==
  args.op = "build" =>
    /\ \A k \in DOMAIN returned.edges :
         /\ IsDefined(nodeMapGet(returned.nodes, returned.edges[k].startNodeId))
         /\ IsDefined(nodeMapGet(returned.nodes, returned.edges[k].endNodeId))
    /\ \A i \in DOMAIN returned.nodes, j \in DOMAIN returned.nodes :
         i # j => returned.nodes[i].id # returned.nodes[j].id
    /\ \A i \in DOMAIN returned.nodes :
         LET node == returned.nodes[i]
         IN  /\ {node.connectedEdges[k] : k \in DOMAIN node.connectedEdges}
                  = IdsAt(returned.edges, node.id)
             /\ Len(node.connectedEdges) = Cardinality(IdsAt(returned.edges, node.id))
             /\ node.type = "switch" => Len(node.connectedEdges) >= 3

(* A node three tracks were merged into, now a switch. *)
C22_Witness ==
  /\ args.op = "build"
  /\ \E i \in DOMAIN returned.nodes :
       /\ returned.nodes[i].type = "switch"
       /\ Len(returned.nodes[i].connectedEdges) = 3
  /\ Len(returned.nodes) < 2 * Len(args.infra.tracks)

(* A track whose two ends were merged: one node, the edge from it to it. *)
C22_WitnessLoop ==
  /\ args.op = "build"
  /\ \E k \in DOMAIN returned.edges : returned.edges[k].startNodeId = returned.edges[k].endNodeId

(***************************************************************************)
(* The state object.                                                       *)
(***************************************************************************)
(* C23: getState returns a copy.  A write into a returned TrainState does  *)
(* not change the state of the train nor anything else update reads, and   *)
(* a getState made later returns the state of the train, not what was      *)
(* written.                                                                *)
C23_GetStateReturnsCopy ==
  [][/\ (args'.op = "write" /\ returned' # returned) => UNCHANGED tdVars
     /\ (args'.op = "getState" /\ returned' # returned) => returned'.fields = state']_vars

(* The caller has written into the object it got, which now differs from   *)
(* the state of a train that has a route and has been updated.             *)
C23_Witness ==
  /\ args.op = "write"
  /\ returned.fields # state
  /\ lastCall.op = "update"
  /\ Len(route) > 0

C25_ResetRestoresInitialState ==
  /\ [](lastCall.op \in {"reset", "setRoute"} =>
          /\ state = [createInitialState EXCEPT !.nextStationName = state.nextStationName]
          /\ state.nextStationName =
               IF Len(stationStops) > 0 THEN stationStops[1].name
               ELSE createInitialState.nextStationName
          /\ finished = FALSE
          /\ lastCurves = NoCurves)
  /\ [][(lastCurves = NoCurves /\ lastCurves' # NoCurves) =>
          /\ lastCall'.op = "update"
          /\ ~returnsAtOnce(Machine)
          /\ state.dwellRemaining = 0]_vars

(* A reset on a route with stops, made after updates. *)
C25_Witness ==
  /\ lastCall.op = "reset"
  /\ Len(route) > 0 /\ Len(stationStops) > 0
  /\ state.nextStationName = stationStops[1].name
  /\ lastCurves = NoCurves

(* C26: each of the five curves returned by computeCurves is strictly      *)
(* ascending by distance: no two consecutive points have the same          *)
(* distance, also after the reaction-time shift that clamps at 0.          *)
C26_StrictlyAscending ==
  Returned =>
    \A c \in CurveNames : \A i \in 1..(Len(bmCurves[c]) - 1) :
      bmCurves[c][i].distance < bmCurves[c][i + 1].distance

(* What does hold: no point lies nearer than the one before it, and two    *)
(* consecutive points at the same distance are both at distance 0.         *)
CurvesNeverDescend ==
  Returned =>
    \A c \in CurveNames : \A i \in 1..(Len(bmCurves[c]) - 1) :
      /\ bmCurves[c][i].distance <= bmCurves[c][i + 1].distance
      /\ bmCurves[c][i].distance = bmCurves[c][i + 1].distance => bmCurves[c][i].distance = 0

(***************************************************************************)
(* Ticks.                                                                  *)
(***************************************************************************)
(* C27: an update entered with dwellRemaining > 0 takes dt off the dwell,  *)
(* not below 0, sets speed, acceleration and throttle to 0 and brakeMode   *)
(* to 'none', and leaves totalDistance, routeEdgeIndex and edgeOffset as   *)
(* they were; when the dwell reaches 0 currentStopIndex goes up by one and *)
(* the train is finished exactly when no stop remains.                     *)
C27_DwellTick ==
  (lastCall.op = "update" /\ pre.state.dwellRemaining > 0) =>
    LET was == pre.state
        left == Max(0, was.dwellRemaining - lastCall.dt)
    IN  /\ state.dwellRemaining = left
        /\ state.speed = 0 /\ state.acceleration = 0
        /\ state.brakeMode = "none" /\ state.throttle = 0
        /\ state.totalDistance = was.totalDistance
        /\ state.routeEdgeIndex = was.routeEdgeIndex
        /\ state.edgeOffset = was.edgeOffset
        /\ state.currentStopIndex = was.currentStopIndex + (IF left = 0 THEN 1 ELSE 0)
        /\ finished = (left = 0 /\ state.currentStopIndex >= Len(stationStops))
        /\ aspect = pre.aspect /\ lastCurves = pre.lastCurves

(* A dwell that ended with a stop still ahead. *)
C27_Witness ==
  /\ lastCall.op = "update" /\ pre.state.dwellRemaining > 0
  /\ state.dwellRemaining = 0
  /\ state.currentStopIndex = pre.state.currentStopIndex + 1
  /\ ~finished
  /\ state.currentStopIndex < Len(stationStops)

(* A dwell at the last stop that ended: the train is finished. *)
C27_WitnessFinished ==
  /\ lastCall.op = "update" /\ pre.state.dwellRemaining > 0
  /\ state.dwellRemaining = 0
  /\ finished

(* A dwell that goes on. *)
C27_WitnessGoesOn ==
  /\ lastCall.op = "update" /\ pre.state.dwellRemaining > 0
  /\ state.dwellRemaining > 0 /\ state.dwellRemaining < pre.state.dwellRemaining

(* C28: the command of computeControl follows the policy table: under      *)
(* 'normal' (maxAcceleration, none, 1) while the speed is below 98% of the *)
(* smaller of maxSpeed and the local speed limit and (0, none, 0)          *)
(* otherwise; under 'indication' (-0.05, none, 0); under 'permitted'       *)
(* (-0.4 serviceBrakeDecel, service, 0); under 'warning'                   *)
(* (-serviceBrakeDecel, service, 0); under 'intervention'                  *)
(* (-emergencyBrakeDecel, emergency, 0).                                   *)
Command(acceleration, brakeMode, throttle) ==
  [acceleration |-> acceleration, brakeMode |-> brakeMode, throttle |-> throttle]

C28_PolicyTable ==
  args.op = "control" =>
    LET p == args.params
        cap == IF p.maxSpeed < args.speedLimit THEN p.maxSpeed ELSE args.speedLimit
        below == 100 * args.speed < 98 * cap
    IN  /\ (args.status = "normal" /\ below) =>
              returned = Command(p.maxAcceleration, "none", 1)
        /\ (args.status = "normal" /\ ~below) => returned = Command(0, "none", 0)
        /\ args.status = "indication" => returned = Command(-5, "none", 0)
        /\ args.status = "permitted" =>
              returned = Command(-((4 * p.serviceBrakeDecel) \div 10), "service", 0)
        /\ args.status = "warning" => returned = Command(-p.serviceBrakeDecel, "service", 0)
        /\ args.status = "intervention" =>
              returned = Command(-p.emergencyBrakeDecel, "emergency", 0)

(* 'normal' at a speed between 98% of the local limit and maxSpeed: hold. *)
C28_Witness ==
  /\ args.op = "control" /\ args.status = "normal"
  /\ args.speedLimit < args.params.maxSpeed
  /\ 100 * args.speed >= 98 * args.speedLimit /\ args.speed < args.params.maxSpeed
  /\ returned.throttle = 0

(* 'permitted': the light brake. *)
C28_WitnessPermitted ==
  /\ args.op = "control" /\ args.status = "permitted"
  /\ returned.brakeMode = "service" /\ returned.acceleration > -args.params.serviceBrakeDecel

(* C29: a tick that gets as far as the arrival check arrives exactly when  *)
(* the train is less than 2.0 m from the next stop and slower than         *)
(* 0.3 m/s.  An arriving tick leaves speed 0, acceleration 0 and           *)
(* totalDistance at the stop, does not move the train along the route or   *)
(* set the signals, and either starts the dwell (dwell time above 0) or    *)
(* passes to the next stop at once, finishing when there is none.          *)
ChecksArrival ==
  /\ lastCall.op = "update"
  /\ ~pre.finished /\ pre.routeLength > 0 /\ pre.state.dwellRemaining <= 0
  /\ pre.state.currentStopIndex < Len(stationStops)

Arrived ==
  \/ state.dwellRemaining > 0
  \/ state.currentStopIndex = pre.state.currentStopIndex + 1

C29_StationArrival ==
  ChecksArrival =>
    LET was == pre.state
        nextStop == stationStops[was.currentStopIndex + 1]
        near == Abs(nextStop.distanceAlongRoute - was.totalDistance) < 200
    IN  /\ Arrived <=> (near /\ was.speed < 30)
        /\ Arrived =>
              /\ state.speed = 0 /\ state.acceleration = 0
              /\ state.totalDistance = nextStop.distanceAlongRoute
              /\ state.routeEdgeIndex = was.routeEdgeIndex
              /\ state.edgeOffset = was.edgeOffset
              /\ lastCall.signalUpdates = 0 /\ aspect = pre.aspect
              /\ IF dwellTime > 0
                    THEN /\ state.dwellRemaining = dwellTime
                         /\ state.currentStopIndex = was.currentStopIndex
                         /\ ~finished
                    ELSE /\ state.dwellRemaining = 0
                         /\ state.currentStopIndex = was.currentStopIndex + 1
                         /\ finished = (state.currentStopIndex >= Len(stationStops))
        /\ ~Arrived => lastCall.signalUpdates = 1

(* An arrival that starts a dwell and moves totalDistance to the stop. *)
C29_Witness ==
  /\ ChecksArrival /\ Arrived /\ dwellTime > 0
  /\ state.dwellRemaining = dwellTime
  /\ state.totalDistance # pre.state.totalDistance

(* An arrival without dwell that finishes the run. *)
C29_WitnessFinished == ChecksArrival /\ Arrived /\ dwellTime = 0 /\ finished

(* An arrival without dwell with a stop still ahead. *)
C29_WitnessGoesOn == ChecksArrival /\ Arrived /\ dwellTime = 0 /\ ~finished

(* A tick with the next stop 2 m or more away: no arrival. *)
C29_WitnessFar == ChecksArrival /\ ~Arrived

(* C30: after every update of a train with a route, a train that is not    *)
(* finished is on a segment of the route, at an offset between the         *)
(* segment's startOffset and endOffset; a tick that moves the train by a   *)
(* displacement puts it that far along the route, across any boundaries,   *)
(* and a displacement that reaches the end of the last segment sets        *)
(* finished, speed 0 and edgeOffset to the last segment's endOffset.       *)
WellFormed ==
  /\ 0 <= state.routeEdgeIndex /\ state.routeEdgeIndex < Len(route)
  /\ LET seg == route[state.routeEdgeIndex + 1]
     IN  /\ Min(seg.startOffset, seg.endOffset) <= state.edgeOffset
         /\ state.edgeOffset <= Max(seg.startOffset, seg.endOffset)

Moved == lastCall.op = "update" /\ lastCall.signalUpdates = 1

C30_PositionStaysWellFormed ==
  (lastCall.op = "update" /\ Len(route) > 0) =>
    /\ ~finished => WellFormed
    /\ Moved =>
         LET displacement == state.totalDistance - pre.state.totalDistance
             from == Along(route, pre.state.routeEdgeIndex, pre.state.edgeOffset)
         IN  IF displacement > 0 /\ from + displacement >= SumLengths(route, Len(route))
               THEN /\ finished /\ state.speed = 0
                    /\ state.edgeOffset = route[Len(route)].endOffset
               ELSE /\ ~finished
                    /\ Along(route, state.routeEdgeIndex, state.edgeOffset)
                         = from + displacement

(* The same position rule after every update, a route set or not. *)
C30_WellFormedAfterEveryUpdate == (lastCall.op = "update" /\ ~finished) => WellFormed

(* A tick that crosses a boundary and goes on into the next segment. *)
C30_Witness ==
  /\ Moved /\ ~finished
  /\ state.routeEdgeIndex > pre.state.routeEdgeIndex
  /\ state.edgeOffset # route[state.routeEdgeIndex + 1].startOffset

(* A tick that crosses two boundaries. *)
C30_WitnessTwoEdges ==
  Moved /\ ~finished /\ state.routeEdgeIndex = pre.state.routeEdgeIndex + 2

(* A tick whose displacement reaches the end of the last segment. *)
C30_WitnessFinished ==
  Moved /\ finished /\ state.totalDistance > pre.state.totalDistance

(* A tick on a route of reverse segments that stays on its segment. *)
C30_WitnessReverse ==
  /\ Moved /\ ~finished /\ state.totalDistance > pre.state.totalDistance
  /\ route[state.routeEdgeIndex + 1].direction = "reverse"
  /\ state.routeEdgeIndex = pre.state.routeEdgeIndex

(* Segment i of r ends, in its direction of travel, at the node of a       *)
(* station.                                                                *)
StopsAt(net, r, i) ==
  /\ IsDefined(getEdge(net, r[i].edgeId))
  /\ \E k \in DOMAIN net.stations :
       stationNodeMapGet(net, net.stations[k].id) = ExitNode(net, r[i])

C31_WitnessPassing ==
  /\ args.op = "getStationStopsAlongRoute"
  /\ Len(returned) > 0 /\ Len(returned) < Len(args.route)

(* C32: computeBrakingCurve terminates: every pass of the loop takes       *)
(* min(stepSize, d) > 0 off the remaining distance, with stepSize the      *)
(* larger of 1 m and targetDistance / 500; the effective deceleration is   *)
(* at least 0.01 m/s^2, so the radicand is never negative and the loop is  *)
(* not left for it; the curve returned has at most 500 steps' points, the  *)
(* target point and one prepended point, and it is the curve of            *)
(* computeBrakingCurve.                                                    *)
LoopStepSize == IF args.targetDistance \div 500 > 100 THEN args.targetDistance \div 500 ELSE 100

LoopDeceleration ==
  effectiveDeceleration(args.params, args.deceleration,
                        getGradientAtProfile(args.gradientProfile, returned.d))

PassTakesAStep ==
  (args'.pc = "loop" /\ returned' # returned) =>
    /\ LoopDeceleration >= 1
    /\ returned'.vSq = returned.vSq + 2 * LoopDeceleration * Min(LoopStepSize, returned.d)
    /\ returned'.vSq >= 0
    /\ returned'.d = returned.d - Min(LoopStepSize, returned.d)
    /\ returned'.d < returned.d /\ returned'.d >= 0
    /\ Len(returned'.curve) = Len(returned.curve) + 1

C32_LoopTerminates ==
  /\ <>(args.pc = "returned")
  /\ [][PassTakesAStep]_vars
  /\ [](Len(returned.curve) <= 500 + 2)
  /\ [](args.pc = "returned" =>
          returned.curve = computeBrakingCurve(args.params, args.targetSpeed,
                                               args.targetDistance, args.deceleration,
                                               args.reactionTime, args.gradientProfile))

(* A loop of 500 passes that ran the distance down to 0: 501 points. *)
C32_Witness ==
  /\ args.pc = "returned" /\ Len(returned.curve) = 500 + 1
  /\ returned.d = 0 /\ args.targetDistance > 0

(* A loop at the floor of the effective deceleration. *)
C32_WitnessFloor ==
  /\ args.pc = "loop" /\ returned.d > 0 /\ LoopDeceleration = 1
  /\ Len(returned.curve) > 1

(* A loop left at the runaway cap with distance remaining, and a point     *)
(* prepended at distance 0.                                                *)
C32_WitnessRunaway ==
  /\ args.pc = "returned" /\ returned.d > 0
  /\ returned.curve[1].distance = 0 /\ returned.curve[2].distance > 0

(* C33: every dt the animation controller passes to update is at most      *)
(* 0.05 s times the speed multiplier of the moment, whichever entry point  *)
(* makes the call, step included.                                          *)
C33_DtCappedBeforeMultiplier ==
  (lastCall.op = "update") => 10 * lastCall.dt <= 50 * lastCall.speedMultiplier

(* The same for the frame loop alone. *)
LoopCapsDt ==
  (lastCall.op = "update" /\ lastCall.entry = "loop")
    => 10 * lastCall.dt <= 50 * lastCall.speedMultiplier

(* A frame that came late: the delta is cut to 0.05 s. *)
LoopCapReached ==
  /\ lastCall.op = "update" /\ lastCall.entry = "loop"
  /\ 10 * lastCall.dt = 50 * lastCall.speedMultiplier

(* C34: with a route set, totalDistance is the distance of the position    *)
(* along the route: the lengths of the segments before routeEdgeIndex and  *)
(* the distance from the startOffset of the current segment to             *)
(* edgeOffset.                                                             *)
C34_TotalDistanceAgrees ==
  Len(route) > 0 =>
    state.totalDistance = Along(route, state.routeEdgeIndex, state.edgeOffset)

(* The same just after setRoute and reset. *)
AgreesAfterReset == (lastCall.op \in {"setRoute", "reset"}) => C34_TotalDistanceAgrees

(* The same on routes whose first segment is a forward one. *)
AgreesOnForwardRoutes ==
  (Len(route) > 0 /\ route[1].direction = "forward") => C34_TotalDistanceAgrees

(* The statuses from the least to the most severe. *)
Severity(status) ==
  CASE status = "normal" -> 0
    [] status = "indication" -> 1
    [] status = "permitted" -> 2
    [] status = "warning" -> 3
    [] status = "intervention" -> 4

(* C35: for one curve set and one distance to the target, the status at    *)
(* the higher of two speeds is at least as severe as the status at the     *)
(* lower, in whatever order the curves lie.                                *)
C35_MonotoneInSpeed ==
  args.op = "getSupervisionStatus" => Severity(returned.lower) <= Severity(returned.higher)

(* Two speeds with statuses of different severity, neither of them the     *)
(* most severe.                                                            *)
C35_Witness ==
  /\ args.op = "getSupervisionStatus"
  /\ Severity(returned.lower) < Severity(returned.higher)
  /\ returned.higher # "intervention"

(* The same on curves handed over in the opposite order. *)
C35_WitnessOpposite ==
  /\ args.op = "getSupervisionStatus" /\ args.order = "opposite"
  /\ Severity(returned.lower) < Severity(returned.higher)

(* The curves getSupervisionStatus interpolates. *)
Interpolated(curves) ==
  {curves.emergencyBrake, curves.warning, curves.permitted, curves.indication}

(* The highest speed of a curve. *)
TopSpeed(curve) ==
  IF Len(curve) = 0 THEN Infinity
  ELSE curve[CHOOSE i \in DOMAIN curve : \A j \in DOMAIN curve : curve[i].speed >= curve[j].speed].speed

(* The interpolation on every curve is a number. *)
InterpolationIsDefined ==
  (args.op = "getSupervisionStatus" /\ args.order = "computed") =>
    \A curve \in Interpolated(bmCurves) : speedAtDist(curve, args.distanceToTarget) # NaN

(* A speed at or above every speed of the emergency brake curve is not     *)
(* classified 'normal'.                                                    *)
NeverNormalAboveEbd ==
  (/\ args.op = "getSupervisionStatus" /\ args.order = "computed"
   /\ args.higher >= TopSpeed(bmCurves.emergencyBrake))
    => returned.higher # "normal"

(* C36: on every curve set computeCurves returns and at every distance to  *)
(* the target >= 0, the speed getSupervisionStatus interpolates on each    *)
(* curve is a number (no division by a zero distance difference), and a    *)
(* speed at or above what the emergency brake curve allows is not          *)
(* classified 'normal'.                                                    *)
C36_InterpolationWellDefined == InterpolationIsDefined /\ NeverNormalAboveEbd

(* C37: after every update that leaves the train unfinished, brakeMode is  *)
(* 'emergency' exactly when supervisionStatus is 'intervention' and        *)
(* 'service' exactly when it is 'warning' or 'permitted', on arrival       *)
(* ticks and during the dwell too.                                         *)
C37_BrakeModeFollowsStatus ==
  (lastCall.op = "update" /\ ~finished) =>
    /\ state.brakeMode = "emergency" <=> state.supervisionStatus = "intervention"
    /\ state.brakeMode = "service" <=> state.supervisionStatus \in {"warning", "permitted"}

(* The same on ticks that compute control and do not arrive. *)
AgreeOnMovingTicks == Moved => C37_BrakeModeFollowsStatus

(* The same on ticks made with no route. *)
AgreeWithoutRoute == Len(route) = 0 => C37_BrakeModeFollowsStatus

(* The speed the controller may hold at a position of the route: the       *)
(* smaller of maxSpeed and the speed limit of the edge at the offset.      *)
SpeedCap(st) ==
  LET seg == route[Min(st.routeEdgeIndex, Len(route) - 1) + 1]
  IN  Min(params.maxSpeed, getSpeedLimitAt(network, seg.edgeId, st.edgeOffset))

RespectedFromWithinLimit ==
  (/\ Moved /\ Len(route) > 0
   /\ pre.state.speed <= SpeedCap(pre.state))
    => state.speed <= SpeedCap(state) + (params.maxAcceleration * lastCall.dt) \div 1000

(* C39: generateRouteBetweenStations(from, to), both stations mapped,      *)
(* returns a chain from the node of from to the node of to whenever        *)
(* findPath finds one; findPath from the node of to finds a path only if   *)
(* findPath from the node of from does, so what is returned otherwise is   *)
(* the default route, never a path found from to to from.                  *)
C39_RouteRunsFromTo ==
  (/\ args.op = "generateRouteBetweenStations"
   /\ Mapped(network, args.fromStationId) /\ Mapped(network, args.toStationId)) =>
    LET fromNodeId == stationNodeMapGet(network, args.fromStationId)
        toNodeId == stationNodeMapGet(network, args.toStationId)
        found == Len(findPath(network, fromNodeId, toNodeId)) > 0
        foundBack == Len(findPath(network, toNodeId, fromNodeId)) > 0
    IN  /\ foundBack => found
        /\ found => LeadsFromTo(network, returned, fromNodeId, toNodeId)
        /\ ~found => returned = generateDefaultRoute(network)

(* A route of two segments or more that runs against the edges, from a     *)
(* station to one before it.                                               *)
C39_Witness ==
  /\ args.op = "generateRouteBetweenStations"
  /\ Mapped(network, args.fromStationId) /\ Mapped(network, args.toStationId)
  /\ Len(returned) >= 2 /\ returned[1].direction = "reverse"
  /\ LeadsFromTo(network, returned, stationNodeMapGet(network, args.fromStationId),
                 stationNodeMapGet(network, args.toStationId))
  /\ returned # generateDefaultRoute(network)

(* Two mapped stations with no path either way: the default route. *)
C39_WitnessNoPath ==
  /\ args.op = "generateRouteBetweenStations"
  /\ Mapped(network, args.fromStationId) /\ Mapped(network, args.toStationId)
  /\ stationNodeMapGet(network, args.fromStationId) # stationNodeMapGet(network, args.toStationId)
  /\ Len(findPath(network, stationNodeMapGet(network, args.fromStationId),
                  stationNodeMapGet(network, args.toStationId))) = 0
  /\ Len(returned) > 0

(* Each segment runs a whole edge, and leaves at the node the next enters. *)
Contiguous(net, r) ==
  /\ \A i \in DOMAIN r : WholeEdge(net, r[i])
  /\ \A i \in 1..(Len(r) - 1) : ExitNode(net, r[i]) = EntryNode(net, r[i + 1])

(* C40: every route that generateDefaultRoute returns is a contiguous      *)
(* chain: each segment runs its edge in the direction it names, and ends   *)
(* at the node at which the next segment starts.                           *)
C40_DefaultRouteContiguous ==
  args.op = "generateDefaultRoute" => Contiguous(network, returned)

(* The routes found between two buffer stops are chains. *)
BufferRouteContiguous ==
  (/\ args.op = "generateDefaultRoute"
   /\ Cardinality(BufferNodeIds(network)) >= 2
   /\ returned # buildSequentialRoute(network)) => Contiguous(network, returned)

(* A sequential route of two segments or more that is a chain. *)
SequentialChainReached ==
  /\ args.op = "generateDefaultRoute"
  /\ Cardinality(BufferNodeIds(network)) < 2
  /\ Len(returned) >= 2
  /\ Contiguous(network, returned)
====
